---------------------------- MODULE Spec2Model ----------------------------
(***************************************************************************)
(* Model of the career-guidance backend.                                   *)
(* Role scorer: backend/app/services/ml_role_analyzer.py, MLRoleAnalyzer.  *)
(* Skill normalizer: backend/app/utils/skill_normalizer.py.                *)
(* Resume parser: backend/app/services/resume_parser.py, ResumeParser.     *)
(* Endpoints: backend/app/routers/resume.py and roles.py.                  *)
(*                                                                         *)
(* Representation                                                          *)
(*  - a skill name is a sequence of one-character strings, so that         *)
(*    str.lower(), `==` and the `in` substring test are computed;          *)
(*  - a level (proficiency_score, required level) is a fixed-point number  *)
(*    with two decimals: 450 stands for 4.5, 300 for the integer level 3;  *)
(*  - a percentage is an exact fraction <<numerator, denominator>> with a  *)
(*    positive denominator (the code uses floats; the model is exact);     *)
(*  - a Python dict is a sequence of entries in insertion order whose      *)
(*    keys are pairwise different.                                         *)
(***************************************************************************)
EXTENDS Integers, Sequences, FiniteSets, TLC

VARIABLES
  roles,          \* self.roles: the role catalog loaded by __init__
  parsed_resume,  \* the argument of the latest predict_roles call
  predictions,    \* the list returned by the latest predict_roles call
  pc,             \* "idle" | "returned" | "raised": outcome of the latest call
  synonyms,       \* SkillNormalizer.synonyms: {canonical -> [synonyms]}
  reverse_map,    \* SkillNormalizer.reverse_map: lower-cased string -> canonical
  all_skills,     \* ResumeParser.all_skills: the flattened skill catalog
  request,        \* the argument of the latest normalizer, parser or endpoint call
  response,       \* the value returned by the latest normalizer, parser or endpoint call
  files,          \* the reference files on disk: file -> "present" | "missing" | "unreadable"
  services,       \* the module-level components: component -> "unbuilt" | "ready" | "failed"
  normalizer_instance, \* skill_normalizer._normalizer_instance: 0 for None, else an instance
  instances,      \* how many SkillNormalizer objects have been constructed
  callers,        \* the threads inside get_normalizer: thread -> [pc, new, result]
  db              \* the database: the rows of resumes, user_skills and recommendations

vars == <<roles, parsed_resume, predictions, pc,
          synonyms, reverse_map, all_skills, request, response,
          files, services, normalizer_instance, instances, callers, db>>

(* the state of the role scorer, and the state of the normalizer and parser *)
scorer_vars == <<roles, parsed_resume, predictions>>
parser_vars == <<synonyms, reverse_map, all_skills, request, response>>
(* the state of start-up, of the normalizer singleton, and of the database *)
startup_vars   == <<files, services>>
singleton_vars == <<normalizer_instance, instances, callers>>
api_vars == <<files, services, normalizer_instance, instances, callers, db>>

-----------------------------------------------------------------------------
(* Bounds of the model *)

MaxRequired == 2   \* required skills per role
MaxProfile  == 2   \* skill objects per profile
MaxRoles    == 3   \* roles per catalog (ranking specification)
MaxThreads  == 3   \* threads calling get_normalizer

(* One level unit: levels are held in hundredths *)
Scale == 100

-----------------------------------------------------------------------------
(* Exact fractions *)

Frac(n, d) == <<n, d>>
FracAddInt(p, k) == <<p[1] + k * p[2], p[2]>>
FracLeq(p, q) == p[1] * q[2] <= q[1] * p[2]
FracLt(p, q) == p[1] * q[2] < q[1] * p[2]
FracEq(p, q) == p[1] * q[2] = q[1] * p[2]

Min(a, b) == IF a <= b THEN a ELSE b

-----------------------------------------------------------------------------
(* Strings *)

UpperChars == <<"A", "B", "C", "D", "E", "F", "G", "H", "I", "J", "K", "L", "M",
                "N", "O", "P", "Q", "R", "S", "T", "U", "V", "W", "X", "Y", "Z">>
LowerChars == <<"a", "b", "c", "d", "e", "f", "g", "h", "i", "j", "k", "l", "m",
                "n", "o", "p", "q", "r", "s", "t", "u", "v", "w", "x", "y", "z">>

ToLower ==
  [c \in {UpperChars[i] : i \in 1..Len(UpperChars)} |->
     LowerChars[CHOOSE i \in 1..Len(UpperChars) : UpperChars[i] = c]]

LowerChar(c) == IF c \in DOMAIN ToLower THEN ToLower[c] ELSE c

(* str.lower() *)
Lower(s) == [i \in 1..Len(s) |-> LowerChar(s[i])]

(* a in b, for two strings *)
IsSubstring(a, b) ==
  \E i \in 0..(Len(b) - Len(a)) : SubSeq(b, i + 1, i + Len(a)) = a

(* x in t, for a tuple t *)
InTuple(x, t) == \E i \in 1..Len(t) : t[i] = x

-----------------------------------------------------------------------------
(* MLRoleAnalyzer._are_skills_equivalent *)

equivalences ==
  << << <<"c", "i", "/", "c", "d">>,
        <<"c", "i", "c", "d">>,
        <<"c", "i", " ", "c", "d">>,
        <<"c", "o", "n", "t", "i", "n", "u", "o", "u", "s", " ", "i", "n", "t", "e", "g", "r", "a", "t", "i", "o", "n">> >>,
     << <<"n", "o", "d", "e", ".", "j", "s">>,
        <<"n", "o", "d", "e", "j", "s">>,
        <<"n", "o", "d", "e">> >>,
     << <<"h", "t", "m", "l", "/", "c", "s", "s">>,
        <<"h", "t", "m", "l">>,
        <<"c", "s", "s">> >>,
     << <<"r", "e", "s", "t", " ", "a", "p", "i">>,
        <<"r", "e", "s", "t">>,
        <<"r", "e", "s", "t", "f", "u", "l", " ", "a", "p", "i">>,
        <<"a", "p", "i">> >>,
     << <<"k", "u", "b", "e", "r", "n", "e", "t", "e", "s">>,
        <<"k", "8", "s">> >>,
     << <<"m", "a", "c", "h", "i", "n", "e", " ", "l", "e", "a", "r", "n", "i", "n", "g">>,
        <<"m", "l">> >>,
     << <<"d", "e", "e", "p", " ", "l", "e", "a", "r", "n", "i", "n", "g">>,
        <<"d", "l">> >>,
     << <<"n", "a", "t", "u", "r", "a", "l", " ", "l", "a", "n", "g", "u", "a", "g", "e", " ", "p", "r", "o", "c", "e", "s", "s", "i", "n", "g">>,
        <<"n", "l", "p">> >> >>

AreSkillsEquivalent(skill1, skill2) ==
  \E g \in 1..Len(equivalences) :
    InTuple(skill1, equivalences[g]) /\ InTuple(skill2, equivalences[g])

-----------------------------------------------------------------------------
(* MLRoleAnalyzer._find_skill_match                                        *)
(* user_skills is the dict of predict_roles: a sequence of <<name, level>> *)
(* The result is <<level>>, or <<>> for None.                              *)

DirectMatches(required_lower, user_skills) ==
  {i \in 1..Len(user_skills) : Lower(user_skills[i][1]) = required_lower}

PartialMatches(required_lower, user_skills) ==
  {i \in 1..Len(user_skills) :
     LET user_lower == Lower(user_skills[i][1]) IN
       /\ IsSubstring(required_lower, user_lower) \/ IsSubstring(user_lower, required_lower)
       /\ AreSkillsEquivalent(required_lower, user_lower)}

First(S) == CHOOSE i \in S : \A j \in S : i <= j

(* mutant: one loop that returns the first skill matching directly or partially *)
FindSkillMatchSinglePass(required_skill, user_skills) ==
  LET required_lower == Lower(required_skill)
      any == DirectMatches(required_lower, user_skills)
               \cup PartialMatches(required_lower, user_skills)
  IN IF any # {} THEN <<user_skills[First(any)][2]>> ELSE <<>>

FindSkillMatch(required_skill, user_skills) ==
  LET required_lower == Lower(required_skill)
      direct  == DirectMatches(required_lower, user_skills)
      partial == PartialMatches(required_lower, user_skills)
  IN IF direct # {} THEN <<user_skills[First(direct)][2]>>
     ELSE IF partial # {} THEN <<user_skills[First(partial)][2]>>
     ELSE <<>>

-----------------------------------------------------------------------------
(* MLRoleAnalyzer._apply_adjustments *)

(* mutant: if / elif / elif, so that at most one adjustment applies *)
ApplyAdjustmentsElif(base_percentage, matched_count, weak_count, missing_count, total_required) ==
  IF missing_count = 0 THEN FracAddInt(base_percentage, 8)
  ELSE IF 10 * matched_count >= total_required * 8 THEN FracAddInt(base_percentage, 5)
  ELSE IF 10 * missing_count > total_required * 4 THEN FracAddInt(base_percentage, -10)
  ELSE base_percentage

ApplyAdjustments(base_percentage, matched_count, weak_count, missing_count, total_required) ==
  LET a1 == IF missing_count = 0
            THEN FracAddInt(base_percentage, 8) ELSE base_percentage
      a2 == IF 10 * matched_count >= total_required * 8
            THEN FracAddInt(a1, 5) ELSE a1
      a3 == IF 10 * missing_count > total_required * 4
            THEN FracAddInt(a2, -10) ELSE a2
  IN a3

-----------------------------------------------------------------------------
(* MLRoleAnalyzer._calculate_role_score                                    *)
(* required_skills: sequence of [skill, level, numeric]; numeric = FALSE   *)
(* stands for a level that is not a number (a string in the JSON file).    *)

(* exact division followed by exact multiplication: (a / b) * b *)
Precision == 60 * Scale
DivThenMul(a, b) == (((a * Precision) \div b) * b) \div Precision

(* mutant: the bonus for exceeding is not capped at one level *)
MatchedScoreUncapped(required_level, user_level) ==
  required_level + ((user_level - required_level) * 3) \div 10

MatchedScore(required_level, user_level) ==
  required_level + (Min(Scale, user_level - required_level) * 3) \div 10

WeakScore(required_level, user_level) == DivThenMul(user_level, required_level)

EmptyAcc ==
  [matched |-> <<>>, weak |-> <<>>, missing |-> <<>>,
   total_score |-> 0, max_possible_score |-> 0, raised |-> FALSE]

(* mutant: a skill held at exactly the required level is not a strong match *)
ClassifyStrict(acc, item, user_level) ==
  LET acc1 == [acc EXCEPT !.max_possible_score = @ + item.level] IN
  IF user_level = <<>>
  THEN [acc1 EXCEPT !.missing =
          Append(@, [skill |-> item.skill, required_level |-> item.level, user_level |-> 0])]
  ELSE IF user_level[1] > item.level
  THEN [acc1 EXCEPT
          !.matched = Append(@, [skill |-> item.skill, required_level |-> item.level,
                                 user_level |-> user_level[1]]),
          !.total_score = @ + MatchedScore(item.level, user_level[1])]
  ELSE [acc1 EXCEPT
          !.weak = Append(@, [skill |-> item.skill, required_level |-> item.level,
                              user_level |-> user_level[1]]),
          !.total_score = @ + WeakScore(item.level, user_level[1])]

(* mutant: `if not user_level` instead of `if user_level is None` *)
ClassifyFalsy(acc, item, user_level) ==
  LET acc1 == [acc EXCEPT !.max_possible_score = @ + item.level] IN
  IF user_level = <<>> \/ user_level = <<0>>
  THEN [acc1 EXCEPT !.missing =
          Append(@, [skill |-> item.skill, required_level |-> item.level, user_level |-> 0])]
  ELSE IF user_level[1] >= item.level
  THEN [acc1 EXCEPT
          !.matched = Append(@, [skill |-> item.skill, required_level |-> item.level,
                                 user_level |-> user_level[1]]),
          !.total_score = @ + MatchedScore(item.level, user_level[1])]
  ELSE [acc1 EXCEPT
          !.weak = Append(@, [skill |-> item.skill, required_level |-> item.level,
                              user_level |-> user_level[1]]),
          !.total_score = @ + WeakScore(item.level, user_level[1])]

Classify(acc, item, user_level) ==
  LET acc1 == [acc EXCEPT !.max_possible_score = @ + item.level] IN
  IF user_level = <<>>
  THEN [acc1 EXCEPT !.missing =
          Append(@, [skill |-> item.skill, required_level |-> item.level, user_level |-> 0])]
  ELSE IF user_level[1] >= item.level
  THEN [acc1 EXCEPT
          !.matched = Append(@, [skill |-> item.skill, required_level |-> item.level,
                                 user_level |-> user_level[1]]),
          !.total_score = @ + MatchedScore(item.level, user_level[1])]
  ELSE [acc1 EXCEPT
          !.weak = Append(@, [skill |-> item.skill, required_level |-> item.level,
                              user_level |-> user_level[1]]),
          !.total_score = @ + WeakScore(item.level, user_level[1])]

RECURSIVE ScoreLoop(_, _, _, _)
ScoreLoop(user_skills, required_skills, i, acc) ==
  IF i > Len(required_skills) THEN acc
  ELSE IF ~required_skills[i].numeric THEN [acc EXCEPT !.raised = TRUE]
  ELSE ScoreLoop(user_skills, required_skills, i + 1,
                 Classify(acc, required_skills[i],
                          FindSkillMatch(required_skills[i].skill, user_skills)))

BasePercentage(acc) ==
  IF acc.max_possible_score > 0
  THEN Frac(acc.total_score * 100, acc.max_possible_score)
  ELSE Frac(0, 1)

(* mutant: max(0, percentage), the cap at 100 forgotten *)
ClipNoCap(p) == IF FracLt(p, Frac(0, 1)) THEN Frac(0, 1) ELSE p

(* mutant: min(100, percentage), the floor at 0 forgotten *)
ClipNoFloor(p) == IF FracLt(Frac(100, 1), p) THEN Frac(100, 1) ELSE p

Clip(p) ==
  LET lo == IF FracLt(p, Frac(0, 1)) THEN Frac(0, 1) ELSE p
  IN IF FracLt(Frac(100, 1), lo) THEN Frac(100, 1) ELSE lo

CalculateRoleScore(user_skills, required_skills) ==
  LET acc == ScoreLoop(user_skills, required_skills, 1, EmptyAcc) IN
  IF acc.raised
  THEN [raised |-> TRUE, percentage |-> Frac(0, 1),
        matched |-> <<>>, weak |-> <<>>, missing |-> <<>>]
  ELSE [raised |-> FALSE,
        percentage |-> Clip(ApplyAdjustments(BasePercentage(acc), Len(acc.matched),
                                             Len(acc.weak), Len(acc.missing),
                                             Len(required_skills))),
        matched |-> acc.matched, weak |-> acc.weak, missing |-> acc.missing]

-----------------------------------------------------------------------------
(* MLRoleAnalyzer.predict_roles *)

(* lines 51-54: user_skills[name] = proficiency_score, for each skill object *)
(* in turn; a repeated name keeps its first position and takes the new value *)
RECURSIVE BuildUserSkills(_, _, _)
BuildUserSkills(technical, i, user_skills) ==
  IF i > Len(technical) THEN user_skills
  ELSE LET name  == technical[i].name
           level == technical[i].proficiency_score
           at    == {k \in 1..Len(user_skills) : user_skills[k][1] = name}
       IN BuildUserSkills(technical, i + 1,
            IF at = {} THEN Append(user_skills, <<name, level>>)
            ELSE [user_skills EXCEPT ![First(at)] = <<name, level>>])

UserSkills(resume) ==
  IF resume.has_technical THEN BuildUserSkills(resume.technical, 1, <<>>) ELSE <<>>

Reverse(s) == [i \in 1..Len(s) |-> s[Len(s) + 1 - i]]

(* list.sort(key=percentage, reverse=True): the list is reversed, sorted by a *)
(* stable ascending sort, and reversed again                                  *)
InsertAsc(sorted, x) ==
  LET after == {k \in 1..Len(sorted) : FracLeq(sorted[k].percentage, x.percentage)}
      n == IF after = {} THEN 0 ELSE CHOOSE k \in after : \A j \in after : j <= k
  IN SubSeq(sorted, 1, n) \o <<x>> \o SubSeq(sorted, n + 1, Len(sorted))

RECURSIVE SortAsc(_)
SortAsc(s) ==
  IF s = <<>> THEN <<>>
  ELSE InsertAsc(SortAsc(SubSeq(s, 1, Len(s) - 1)), s[Len(s)])

(* mutant: sorted ascending, then reversed: equal entries change places *)
SortThenReverse(s) == Reverse(SortAsc(s))

SortByPercentage(s) == Reverse(SortAsc(Reverse(s)))

Prediction(role, score) ==
  [role |-> role.title,
   probability |-> Frac(score.percentage[1], score.percentage[2] * 100),
   percentage |-> score.percentage,
   matched |-> score.matched, weak |-> score.weak, missing |-> score.missing]

(* mutant: the catalog itself is put in the order of the predictions *)
PredictRolesSortingCatalog(resume) ==
  LET user_skills == UserSkills(resume)
      scored == [i \in 1..Len(roles) |->
                   CalculateRoleScore(user_skills, roles[i].required_skills)]
      ranked == SortByPercentage([i \in 1..Len(roles) |->
                                    [percentage |-> scored[i].percentage, role |-> roles[i]]])
  IN /\ pc = "idle"
     /\ parsed_resume' = resume
     /\ pc' = "returned"
     /\ predictions' =
          SortByPercentage([i \in 1..Len(roles) |-> Prediction(roles[i], scored[i])])
     /\ roles' = [i \in 1..Len(roles) |-> ranked[i].role]
     /\ UNCHANGED parser_vars
     /\ UNCHANGED api_vars

PredictRoles(resume) ==
  LET user_skills == UserSkills(resume)
      scored == [i \in 1..Len(roles) |->
                   CalculateRoleScore(user_skills, roles[i].required_skills)]
  IN /\ pc = "idle"
     /\ parsed_resume' = resume
     /\ IF \E i \in 1..Len(roles) : scored[i].raised
        THEN /\ pc' = "raised"
             /\ predictions' = <<>>
        ELSE /\ pc' = "returned"
             /\ predictions' =
                  SortByPercentage([i \in 1..Len(roles) |-> Prediction(roles[i], scored[i])])
     /\ UNCHANGED roles
     /\ UNCHANGED parser_vars
     /\ UNCHANGED api_vars

(* routers/roles.py line 80 and after: the caller takes the list (or the *)
(* exception propagates) and the analyzer is ready for the next call     *)
Discard ==
  /\ pc \in {"returned", "raised"}
  /\ pc' = "idle"
  /\ parsed_resume' = [has_technical |-> FALSE, technical |-> <<>>]
  /\ predictions' = <<>>
  /\ UNCHANGED roles
  /\ UNCHANGED parser_vars
  /\ UNCHANGED api_vars

-----------------------------------------------------------------------------
(* Inputs *)

(* the normalizer and the parser before their first call: MLRoleAnalyzer *)
(* holds neither                                                         *)
ParserIdle ==
  /\ synonyms = <<>>
  /\ reverse_map = <<>>
  /\ all_skills = <<>>
  /\ request = <<>>
  /\ response = <<>>

(* the reference files, the components, the threads and the tables *)
FileNames    == {"skills_taxonomy.json", "skill_synonyms.json", "roles_dataset.json"}
ServiceNames == {"skill_normalizer", "resume_parser", "ml_analyzer"}
Threads      == 1..MaxThreads
IdleCaller   == [pc |-> "idle", new |-> 0, result |-> 0]
EmptyDb      == [resumes |-> <<>>, user_skills |-> <<>>, recommendations |-> <<>>]

(* the process after a start-up with every file in place, before any request *)
ApiIdle ==
  /\ files = [f \in FileNames |-> "present"]
  /\ services = [c \in ServiceNames |-> "ready"]
  /\ normalizer_instance = 1
  /\ instances = 1
  /\ callers = [t \in Threads |-> IdleCaller]
  /\ db = EmptyDb

Docker     == <<"D", "o", "c", "k", "e", "r">>
Kubernetes == <<"K", "u", "b", "e", "r", "n", "e", "t", "e", "s">>
AWS        == <<"A", "W", "S">>
NodeJs     == <<"N", "o", "d", "e", ".", "j", "s">>
HtmlCss    == <<"H", "T", "M", "L", "/", "C", "S", "S">>
Java       == <<"J", "a", "v", "a">>
docker_lc  == <<"d", "o", "c", "k", "e", "r">>
node_lc    == <<"n", "o", "d", "e">>
NODEJS_uc  == <<"N", "O", "D", "E", ".", "J", "S">>
JS         == <<"J", "S">>
k8s        == <<"k", "8", "s">>
css_lc     == <<"c", "s", "s">>
JavaScript == <<"J", "a", "v", "a", "S", "c", "r", "i", "p", "t">>

Linux      == <<"L", "i", "n", "u", "x">>

(* required levels of the catalog: the integers 1..5 *)
RequiredLevels == {k * Scale : k \in 1..5}

(* strictly increasing index sequences of length k over 1..n *)
IncSeqs(n, k) == {s \in [1..k -> 1..n] : \A i \in 1..(k - 1) : s[i] < s[i + 1]}

(* required-skill maps with at most max keys taken in order from names *)
RequiredSkillMaps(names, levels, max) ==
  UNION {{[i \in 1..k |-> [skill |-> names[idx[i]], level |-> lv[i], numeric |-> TRUE]] :
            idx \in IncSeqs(Len(names), k), lv \in [1..k -> levels]} : k \in 0..max}

(* technical-skill lists with at most max skill objects taken in order from names *)
TechnicalLists(names, levels, max) ==
  UNION {{[i \in 1..k |-> [name |-> names[idx[i]], proficiency_score |-> lv[i]]] :
            idx \in IncSeqs(Len(names), k), lv \in [1..k -> levels]} : k \in 0..max}

NoResume == [has_technical |-> FALSE, technical |-> <<>>]

Resumes(lists) == {[has_technical |-> TRUE, technical |-> t] : t \in lists} \cup {NoResume}

Catalogs(title, maps) == {<<[title |-> title, required_skills |-> rs]>> : rs \in maps}

(* Scoring inputs: one role per catalog.                                    *)
(*  - short roles: up to MaxRequired skills with every level 1..5, against   *)
(*    profiles of up to MaxProfile skills;                                   *)
(*  - five-skill roles, the size of the roles of scripts/seed_job_roles.py,  *)
(*    against profiles holding any subset of the five skills;                *)
(*  - the example of the specification: {Docker:4, Kubernetes:4, AWS:3}      *)
(*    against {Docker:4.5, AWS:2}.                                           *)
ShortRequiredNames == <<Docker, Kubernetes, AWS>>
ShortProfileNames  == <<docker_lc, Kubernetes, AWS>>
ShortProfileLevels == {0, 200, 450, 500}

WideNames          == <<Docker, Kubernetes, AWS, NodeJs, Linux>>
WideRequiredLevels == {1 * Scale, 4 * Scale}
WideProfileLevels  == {200, 500}

ExampleRequired ==
  <<[skill |-> Docker, level |-> 4 * Scale, numeric |-> TRUE],
    [skill |-> Kubernetes, level |-> 4 * Scale, numeric |-> TRUE],
    [skill |-> AWS, level |-> 3 * Scale, numeric |-> TRUE]>>

ExampleResume ==
  [has_technical |-> TRUE,
   technical |-> <<[name |-> Docker, proficiency_score |-> 450],
                   [name |-> AWS, proficiency_score |-> 200]>>]

ScoreRequired ==
  RequiredSkillMaps(ShortRequiredNames, RequiredLevels, MaxRequired)
    \cup {rs \in RequiredSkillMaps(WideNames, WideRequiredLevels, Len(WideNames)) :
            Len(rs) = Len(WideNames)}
    \cup {ExampleRequired}

ScoreResumes ==
  Resumes(TechnicalLists(ShortProfileNames, ShortProfileLevels, MaxProfile)
            \cup TechnicalLists(WideNames, WideProfileLevels, Len(WideNames)))
    \cup {ExampleResume}

Init ==
  /\ roles \in Catalogs("DevOps/Cloud Engineer", ScoreRequired)
  /\ parsed_resume = NoResume
  /\ predictions = <<>>
  /\ pc = "idle"
  /\ ParserIdle
  /\ ApiIdle

Next ==
  \/ \E resume \in ScoreResumes : PredictRoles(resume)
  \/ Discard

Spec == Init /\ [][Next]_vars

(* Matching inputs: one role with at most one required skill, against profiles *)
(* listing up to MaxProfile skill objects in any order, names repeated or not  *)
MatchRequiredNames == <<NodeJs, Java, Kubernetes, HtmlCss>>
MatchProfileNames  == {node_lc, NODEJS_uc, JS, JavaScript, k8s, css_lc}
MatchProfileLevels == {200, 400}

MatchResumes ==
  Resumes(UNION {[1..k -> [name : MatchProfileNames, proficiency_score : MatchProfileLevels]] :
                   k \in 0..MaxProfile})

InitMatch ==
  /\ roles \in Catalogs("Full Stack Developer",
                        RequiredSkillMaps(MatchRequiredNames, {3 * Scale}, 1))
  /\ parsed_resume = NoResume
  /\ predictions = <<>>
  /\ pc = "idle"
  /\ ParserIdle
  /\ ApiIdle

NextMatch ==
  \/ \E resume \in MatchResumes : PredictRoles(resume)
  \/ Discard

SpecMatch == InitMatch /\ [][NextMatch]_vars

(* Ranking inputs: catalogs of up to MaxRoles different roles, one of them with *)
(* a level that is not a number                                                 *)
RankRoles ==
  {[title |-> "DevOps/Cloud Engineer", required_skills |-> ExampleRequired],
   [title |-> "Backend Developer",
    required_skills |-> <<[skill |-> NodeJs, level |-> 3 * Scale, numeric |-> TRUE],
                          [skill |-> Docker, level |-> 2 * Scale, numeric |-> TRUE]>>],
   [title |-> "Frontend Developer",
    required_skills |-> <<[skill |-> HtmlCss, level |-> 3 * Scale, numeric |-> TRUE]>>],
   [title |-> "Data Engineer",
    required_skills |-> <<[skill |-> AWS, level |-> 3 * Scale, numeric |-> TRUE]>>],
   [title |-> "AI Engineer",
    required_skills |-> <<[skill |-> AWS, level |-> 2 * Scale, numeric |-> TRUE],
                          [skill |-> Docker, level |-> 0, numeric |-> FALSE]>>]}

RankCatalogs ==
  UNION {{c \in [1..n -> RankRoles] : \A i, j \in 1..n : i # j => c[i] # c[j]} :
           n \in 0..MaxRoles}

RankProfileNames  == <<Docker, AWS, node_lc, css_lc>>
RankProfileLevels == {200, 450}

RankResumes == Resumes(TechnicalLists(RankProfileNames, RankProfileLevels, MaxProfile))

InitRank ==
  /\ roles \in RankCatalogs
  /\ parsed_resume = NoResume
  /\ predictions = <<>>
  /\ pc = "idle"
  /\ ParserIdle
  /\ ApiIdle

NextRank ==
  \/ \E resume \in RankResumes : PredictRoles(resume)
  \/ Discard

SpecRank == InitRank /\ [][NextRank]_vars

-----------------------------------------------------------------------------
(* Properties of the scorer, stated on the outcome of a predict_roles call *)

Zero    == Frac(0, 1)
Hundred == Frac(100, 1)

WellFormed(role) ==
  \A k \in 1..Len(role.required_skills) :
    /\ role.required_skills[k].numeric
    /\ role.required_skills[k].level \in RequiredLevels

(* the level the profile of the call resolves for a required skill, <<>> if none *)
Resolved(skill) == FindSkillMatch(skill, UserSkills(parsed_resume))

Returned == pc = "returned" /\ Len(roles) = 1 /\ Len(predictions) = 1

SkillsOf(list) == {list[k].skill : k \in 1..Len(list)}

(* the score of the call before it is clipped *)
Unclipped ==
  LET acc == ScoreLoop(UserSkills(parsed_resume), roles[1].required_skills, 1, EmptyAcc)
  IN ApplyAdjustments(BasePercentage(acc), Len(acc.matched), Len(acc.weak),
                      Len(acc.missing), Len(roles[1].required_skills))

(* C1: for every profile with levels in 0..5 and every role whose required  *)
(* levels are integers 1..5, the percentage of every prediction returned by *)
(* predict_roles lies in [0, 100].                                          *)
C1_PercentageInRange ==
  (pc = "returned" /\ \A i \in 1..Len(roles) : WellFormed(roles[i])) =>
    \A k \in 1..Len(predictions) :
      /\ predictions[k].percentage[2] > 0
      /\ FracLeq(Zero, predictions[k].percentage)
      /\ FracLeq(predictions[k].percentage, Hundred)

(* a call whose adjusted score exceeded 100 and was cut back to 100 *)
C1_Witness ==
  /\ Returned
  /\ Len(roles[1].required_skills) >= 2
  /\ FracLt(Hundred, Unclipped)
  /\ FracEq(predictions[1].percentage, Hundred)

(* C2: a role whose required-skill map is empty scores percentage 0 for any *)
(* profile.                                                                 *)
C2_EmptyRoleScoresZero ==
  (Returned /\ roles[1].required_skills = <<>>) =>
    FracEq(predictions[1].percentage, Zero)

(* C4: if the profile resolves every required skill of a role (at least one *)
(* required skill) at exactly the required level, every required skill is   *)
(* matched and the percentage is exactly 100.                               *)
AllExact ==
  /\ Len(roles[1].required_skills) >= 1
  /\ \A k \in 1..Len(roles[1].required_skills) :
       Resolved(roles[1].required_skills[k].skill) = <<roles[1].required_skills[k].level>>

C4_ExactMatchScores100 ==
  (Returned /\ AllExact) =>
    /\ Len(predictions[1].matched) = Len(roles[1].required_skills)
    /\ SkillsOf(predictions[1].matched) = SkillsOf(roles[1].required_skills)
    /\ predictions[1].weak = <<>>
    /\ predictions[1].missing = <<>>
    /\ FracEq(predictions[1].percentage, Hundred)

C4_Witness ==
  /\ Returned
  /\ AllExact
  /\ Len(roles[1].required_skills) >= 2
  /\ FracEq(predictions[1].percentage, Hundred)

(* C5: if the profile resolves none of the required skills of a role (at    *)
(* least one required skill), every required skill is missing and the       *)
(* percentage is exactly 0.                                                 *)
NoneResolved ==
  /\ Len(roles[1].required_skills) >= 1
  /\ \A k \in 1..Len(roles[1].required_skills) :
       Resolved(roles[1].required_skills[k].skill) = <<>>

C5_NoSkillScoresZero ==
  (Returned /\ NoneResolved) =>
    /\ Len(predictions[1].missing) = Len(roles[1].required_skills)
    /\ SkillsOf(predictions[1].missing) = SkillsOf(roles[1].required_skills)
    /\ predictions[1].matched = <<>>
    /\ predictions[1].weak = <<>>
    /\ FracEq(predictions[1].percentage, Zero)

(* none resolved although the profile is not empty: base 0, penalty -10 *)
C5_Witness ==
  /\ Returned
  /\ NoneResolved
  /\ Len(roles[1].required_skills) >= 2
  /\ parsed_resume.technical # <<>>
  /\ FracEq(Unclipped, Frac(-10, 1))
  /\ FracEq(predictions[1].percentage, Zero)

(* C6 as claimed: every required skill is in exactly one of matched, weak,  *)
(* missing; missing iff no level resolves, matched iff the resolved level   *)
(* is >= the required level, weak iff a level resolves and                  *)
(* 0 < level < required (a skill held at level 0 is never weak).            *)
InList(list, skill) == \E k \in 1..Len(list) : list[k].skill = skill

Partitioned(p, required_skills) ==
  /\ Len(p.matched) + Len(p.weak) + Len(p.missing) = Len(required_skills)
  /\ \A k \in 1..Len(required_skills) :
       LET skill == required_skills[k].skill IN
         /\ InList(p.matched, skill) \/ InList(p.weak, skill) \/ InList(p.missing, skill)
         /\ ~(InList(p.matched, skill) /\ InList(p.weak, skill))
         /\ ~(InList(p.matched, skill) /\ InList(p.missing, skill))
         /\ ~(InList(p.weak, skill) /\ InList(p.missing, skill))

RECURSIVE MatchedContribution10(_)
MatchedContribution10(list) ==
  IF list = <<>> THEN 0
  ELSE 10 * list[1].required_level
         + 3 * Min(Scale, list[1].user_level - list[1].required_level)
         + MatchedContribution10(Tail(list))

RECURSIVE WeakContribution10(_)
WeakContribution10(list) ==
  IF list = <<>> THEN 0 ELSE 10 * list[1].user_level + WeakContribution10(Tail(list))

RECURSIVE SumRequired(_)
SumRequired(required_skills) ==
  IF required_skills = <<>> THEN 0
  ELSE required_skills[1].level + SumRequired(Tail(required_skills))

Base ==
  BasePercentage(ScoreLoop(UserSkills(parsed_resume), roles[1].required_skills, 1, EmptyAcc))

IsExample ==
  Returned /\ roles[1].required_skills = ExampleRequired /\ parsed_resume = ExampleResume

C7_BasePercentage ==
  /\ (Returned /\ Len(roles[1].required_skills) >= 1) =>
       FracEq(Base,
              Frac(10 * (MatchedContribution10(predictions[1].matched)
                           + WeakContribution10(predictions[1].weak)),
                   SumRequired(roles[1].required_skills)))
  /\ IsExample =>
       /\ SkillsOf(predictions[1].matched) = {Docker}
       /\ SkillsOf(predictions[1].missing) = {Kubernetes}
       /\ SkillsOf(predictions[1].weak) = {AWS}
       /\ FracEq(Base, Frac(100 * 615, 1100))
       /\ FracEq(predictions[1].percentage, Base)

C7_Witness ==
  /\ IsExample
  /\ FracEq(predictions[1].percentage, Frac(100 * 615, 1100))

(* C8: with n required skills the percentage is                            *)
(* clip(base + 8*[missing = 0] + 5*[matched >= 0.8*n] - 10*[missing > 0.4*n], *)
(* 0, 100): the adjustments are independent and additive and the result is *)
(* clipped once, after all of them.                                        *)
ClaimedAdjustment(matched_count, missing_count, n) ==
  (IF missing_count = 0 THEN 8 ELSE 0)
    + (IF 10 * matched_count >= 8 * n THEN 5 ELSE 0)
    - (IF 10 * missing_count > 4 * n THEN 10 ELSE 0)

ClaimedPercentage ==
  LET raw == FracAddInt(Base, ClaimedAdjustment(Len(predictions[1].matched),
                                                Len(predictions[1].missing),
                                                Len(roles[1].required_skills)))
  IN IF FracLt(raw, Zero) THEN Zero ELSE IF FracLt(Hundred, raw) THEN Hundred ELSE raw

C8_Adjustments ==
  Returned => FracEq(predictions[1].percentage, ClaimedPercentage)

(* the +5 bonus without the +8 bonus (4 of 5 matched, 1 missing), unclipped *)
C8_Witness ==
  /\ Returned
  /\ Len(predictions[1].missing) > 0
  /\ 10 * Len(predictions[1].matched) >= 8 * Len(roles[1].required_skills)
  /\ FracEq(predictions[1].percentage, FracAddInt(Base, 5))
  /\ FracLt(predictions[1].percentage, Hundred)

(* C9: the level resolved for a required skill r is the level of a profile  *)
(* skill whose name equals r ignoring case, if there is one; otherwise the  *)
(* level of a profile skill u such that one lower-cased name is a substring *)
(* of the other and both lower-cased names are in one equivalence group;    *)
(* otherwise none. An exact match wins over a partial one whatever the      *)
(* order of the profile, and containment alone resolves nothing.            *)
EqualIgnoringCase(a, b) == Lower(a) = Lower(b)

Contained(a, b) == IsSubstring(Lower(a), Lower(b)) \/ IsSubstring(Lower(b), Lower(a))

SameGroup(a, b) ==
  \E g \in 1..Len(equivalences) :
    /\ \E m \in 1..Len(equivalences[g]) : equivalences[g][m] = Lower(a)
    /\ \E m \in 1..Len(equivalences[g]) : equivalences[g][m] = Lower(b)

ExactLevels(skill, user_skills) ==
  {user_skills[i][2] : i \in {j \in 1..Len(user_skills) :
                                EqualIgnoringCase(user_skills[j][1], skill)}}

PartialLevels(skill, user_skills) ==
  {user_skills[i][2] : i \in {j \in 1..Len(user_skills) :
                                /\ Contained(user_skills[j][1], skill)
                                /\ SameGroup(user_skills[j][1], skill)}}

(* the level the returned prediction reports for a required skill, <<>> if missing *)
Reported(p, skill) ==
  IF InList(p.missing, skill) THEN <<>>
  ELSE LET hits == p.matched \o p.weak
       IN <<hits[CHOOSE k \in 1..Len(hits) : hits[k].skill = skill].user_level>>

C9_SkillResolution ==
  Returned =>
    \A k \in 1..Len(roles[1].required_skills) :
      LET skill   == roles[1].required_skills[k].skill
          user    == UserSkills(parsed_resume)
          exact   == ExactLevels(skill, user)
          partial == PartialLevels(skill, user)
          level   == Reported(predictions[1], skill)
      IN /\ level = Resolved(skill)
         /\ exact # {} => (level # <<>> /\ level[1] \in exact)
         /\ (exact = {} /\ partial # {}) => (level # <<>> /\ level[1] \in partial)
         /\ (exact = {} /\ partial = {}) => level = <<>>

(* an exact match listed after a partial match of another level wins *)
C9_Witness ==
  /\ Returned
  /\ Len(roles[1].required_skills) = 1
  /\ LET skill == roles[1].required_skills[1].skill
         user  == UserSkills(parsed_resume)
     IN /\ Len(user) = 2
        /\ ~EqualIgnoringCase(user[1][1], skill)
        /\ Contained(user[1][1], skill) /\ SameGroup(user[1][1], skill)
        /\ EqualIgnoringCase(user[2][1], skill)
        /\ user[1][2] # user[2][2]
        /\ Reported(predictions[1], skill) = <<user[2][2]>>

(* C3: a malformed role record (a required level that is not a number) is   *)
(* skipped: predict_roles still returns the ranked predictions of every     *)
(* other role.                                                              *)
Malformed(role) ==
  \E k \in 1..Len(role.required_skills) : ~role.required_skills[k].numeric

C3_MalformedRoleSkipped ==
  (pc # "idle" /\ \E i \in 1..Len(roles) : Malformed(roles[i])) =>
    /\ pc = "returned"
    /\ {predictions[k].role : k \in 1..Len(predictions)}
         = {roles[i].title : i \in {j \in 1..Len(roles) : ~Malformed(roles[j])}}

(* C10: predict_roles returns exactly one prediction per role of the        *)
(* catalog (its score), ordered by non-increasing percentage, roles of      *)
(* equal percentage in their catalog order.                                 *)
CatalogIndex(title) == CHOOSE i \in 1..Len(roles) : roles[i].title = title

C10_RankedStable ==
  (pc # "idle" /\ \A i \in 1..Len(roles) : WellFormed(roles[i])) =>
    /\ pc = "returned"
    /\ Len(predictions) = Len(roles)
    /\ \A i \in 1..Len(roles) :
         Cardinality({k \in 1..Len(predictions) : predictions[k].role = roles[i].title}) = 1
    /\ \A k \in 1..Len(predictions) :
         predictions[k].percentage =
           CalculateRoleScore(UserSkills(parsed_resume),
                              roles[CatalogIndex(predictions[k].role)].required_skills).percentage
    /\ \A k, l \in 1..Len(predictions) :
         k < l =>
           /\ FracLeq(predictions[l].percentage, predictions[k].percentage)
           /\ FracEq(predictions[l].percentage, predictions[k].percentage) =>
                CatalogIndex(predictions[k].role) < CatalogIndex(predictions[l].role)

(* three roles: two of equal percentage, ranked behind a role that follows *)
(* them in the catalog                                                     *)
C10_Witness ==
  /\ pc = "returned"
  /\ Len(predictions) = 3
  /\ predictions[1].role = roles[3].title
  /\ predictions[2].role = roles[1].title
  /\ predictions[3].role = roles[2].title
  /\ FracLt(predictions[2].percentage, predictions[1].percentage)
  /\ FracEq(predictions[2].percentage, predictions[3].percentage)

-----------------------------------------------------------------------------
(* Strings, continued *)

ToUpper ==
  [c \in {LowerChars[i] : i \in 1..Len(LowerChars)} |->
     UpperChars[CHOOSE i \in 1..Len(LowerChars) : LowerChars[i] = c]]

UpperChar(c) == IF c \in DOMAIN ToUpper THEN ToUpper[c] ELSE c

(* a cased character: a letter *)
IsCased(c) == c \in DOMAIN ToUpper \/ c \in DOMAIN ToLower

(* the characters str.strip() removes and the pattern \s matches *)
Whitespace == {" ", "\n", "\t"}

(* str.strip() *)
Strip(s) ==
  LET kept == {i \in 1..Len(s) : s[i] \notin Whitespace}
  IN IF kept = {} THEN <<>>
     ELSE SubSeq(s, CHOOSE i \in kept : \A j \in kept : i <= j,
                    CHOOSE i \in kept : \A j \in kept : j <= i)

(* str.title(): a letter is upper-cased when the character before it is not *)
(* a letter, and lower-cased when it is                                     *)
Title(s) ==
  [i \in 1..Len(s) |->
     IF i > 1 /\ IsCased(s[i - 1]) THEN LowerChar(s[i]) ELSE UpperChar(s[i])]

-----------------------------------------------------------------------------
(* SkillNormalizer, skill_normalizer.py *)

(* d[k] = v on a dict that is only read through get() *)
DictSet(d, k, v) == [x \in DOMAIN d \cup {k} |-> IF x = k THEN v ELSE d[x]]

(* lines 26-27: for synonym in synonyms_list *)
RECURSIVE AddSynonyms(_, _, _, _)
AddSynonyms(map, canonical, synonyms_list, j) ==
  IF j > Len(synonyms_list) THEN map
  ELSE AddSynonyms(DictSet(map, Lower(synonyms_list[j]), canonical),
                   canonical, synonyms_list, j + 1)

(* lines 21-27: for canonical, synonyms_list in self.synonyms.items(); a later *)
(* assignment to a key replaces the earlier one                                *)
RECURSIVE BuildReverseMap(_, _, _)
BuildReverseMap(table, i, map) ==
  IF i > Len(table) THEN map
  ELSE BuildReverseMap(table, i + 1,
         AddSynonyms(DictSet(map, Lower(table[i].canonical), table[i].canonical),
                     table[i].canonical, table[i].synonyms_list, 1))

(* lines 51-66: the special cases, tried in this order *)
special_cases ==
  << [parts |-> <<<<"n", "o", "d", "e">>, <<"j", "s">>>>,          name |-> <<"N", "o", "d", "e", ".", "j", "s">>],
     [parts |-> <<<<"r", "e", "a", "c", "t">>>>,                name |-> <<"R", "e", "a", "c", "t">>],
     [parts |-> <<<<"c", "i">>, <<"c", "d">>>>,            name |-> <<"C", "I", "/", "C", "D">>],
     [parts |-> <<<<"h", "t", "m", "l">>, <<"c", "s", "s">>>>,         name |-> <<"H", "T", "M", "L", "/", "C", "S", "S">>],
     [parts |-> <<<<"m", "a", "c", "h", "i", "n", "e">>, <<"l", "e", "a", "r", "n", "i", "n", "g">>>>, name |-> <<"M", "a", "c", "h", "i", "n", "e", " ", "L", "e", "a", "r", "n", "i", "n", "g">>],
     [parts |-> <<<<"d", "e", "e", "p">>, <<"l", "e", "a", "r", "n", "i", "n", "g">>>>,    name |-> <<"D", "e", "e", "p", " ", "L", "e", "a", "r", "n", "i", "n", "g">>],
     [parts |-> <<<<"n", "a", "t", "u", "r", "a", "l">>, <<"l", "a", "n", "g", "u", "a", "g", "e">>>>, name |-> <<"N", "a", "t", "u", "r", "a", "l", " ", "L", "a", "n", "g", "u", "a", "g", "e", " ", "P", "r", "o", "c", "e", "s", "s", "i", "n", "g">>],
     [parts |-> <<<<"r", "e", "s", "t">>, <<"a", "p", "i">>>>,         name |-> <<"R", "E", "S", "T", " ", "A", "P", "I">>] >>

SpecialCaseApplies(k, cleaned_lower) ==
  \A p \in 1..Len(special_cases[k].parts) :
    IsSubstring(special_cases[k].parts[p], cleaned_lower)

(* SkillNormalizer.normalize, lines 41-69 *)
Normalize(map, skill_name) ==
  LET cleaned == Strip(skill_name)
      cleaned_lower == Lower(cleaned)
      (* line 46: `if canonical` is false for a missing key and for "" *)
      found == cleaned_lower \in DOMAIN map /\ map[cleaned_lower] # <<>>
      hits == {k \in 1..Len(special_cases) : SpecialCaseApplies(k, cleaned_lower)}
  IN IF found THEN map[cleaned_lower]
     ELSE IF hits # {} THEN special_cases[First(hits)].name
     ELSE Title(cleaned)

(* a call normalize(skill_name); normalized says that skill_name is the value *)
(* the call before returned                                                   *)
NormalizeCall(skill_name, normalized) ==
  /\ request' = [skill_name |-> skill_name, normalized |-> normalized]
  /\ response' = Normalize(reverse_map, skill_name)
  /\ pc' = "returned"
  /\ UNCHANGED <<synonyms, reverse_map, all_skills>>
  /\ UNCHANGED scorer_vars
  /\ UNCHANGED api_vars

(* normalize is called on a raw name *)
NormalizeRaw(skill_name) ==
  /\ pc = "idle"
  /\ NormalizeCall(skill_name, FALSE)

(* normalize is called on the name it has just returned *)
NormalizeAgain ==
  /\ pc = "returned"
  /\ ~request.normalized
  /\ NormalizeCall(response, TRUE)

(* the caller keeps the name and the normalizer is ready for the next call *)
Release ==
  /\ pc = "returned"
  /\ pc' = "idle"
  /\ request' = <<>>
  /\ response' = <<>>
  /\ UNCHANGED <<synonyms, reverse_map, all_skills>>
  /\ UNCHANGED scorer_vars
  /\ UNCHANGED api_vars

(* Normalizer inputs: synonym tables of up to MaxCanonical entries with *)
(* different canonical names, each with up to MaxSynonyms synonyms      *)
MaxCanonical == 2
MaxSynonyms  == 1

ReactJS == <<"R", "e", "a", "c", "t", "J", "S">>

CanonicalNames == {JavaScript, NodeJs, ReactJS}
SynonymNames   == <<<<"j", "s">>, <<"j", "a", "v", "a", "s", "c", "r", "i", "p", "t">>, <<"r", "e", "a", "c", "t">>>>

SynonymLists ==
  UNION {{[i \in 1..k |-> SynonymNames[idx[i]]] : idx \in IncSeqs(Len(SynonymNames), k)} :
           k \in 0..MaxSynonyms}

SynonymTables ==
  UNION {{t \in [1..n -> [canonical : CanonicalNames, synonyms_list : SynonymLists]] :
            \A i, j \in 1..n : i # j => t[i].canonical # t[j].canonical} :
           n \in 0..MaxCanonical}

RawNames ==
  CanonicalNames \cup
  {<<" ", "j", "s", " ">>, <<"J", "S">>, <<"r", "e", "a", "c", "t", " ", "n", "a", "t", "i", "v", "e">>, <<"N", "o", "d", "e", " ", "J", "S">>, <<"a", "w", "s">>, <<"R", "E", "S", "T", " ", "a", "p", "i", "s">>,
   <<"s", "c", "i", "k", "i", "t", "-", "l", "e", "a", "r", "n">>, <<"3", "d", " ", "m", "o", "d", "e", "l", "i", "n", "g">>}

NoScorer ==
  /\ roles = <<>>
  /\ parsed_resume = NoResume
  /\ predictions = <<>>

(* get_normalizer(): the normalizer is constructed from the table *)
InitNormalize ==
  /\ synonyms \in SynonymTables
  /\ reverse_map = BuildReverseMap(synonyms, 1, <<>>)
  /\ all_skills = <<>>
  /\ request = <<>>
  /\ response = <<>>
  /\ pc = "idle"
  /\ NoScorer
  /\ ApiIdle

NextNormalize ==
  \/ \E skill_name \in RawNames : NormalizeRaw(skill_name)
  \/ NormalizeAgain
  \/ Release

SpecNormalize == InitNormalize /\ [][NextNormalize]_vars

-----------------------------------------------------------------------------
(* Properties of the normalizer *)

(* C11: normalization is idempotent: for every input string and every synonym *)
(* table, normalizing the name that normalize returned gives that name again. *)
C11_Idempotent ==
  (pc = "returned" /\ request.normalized) => response = request.skill_name

(* C12: every canonical name of the synonym table normalizes to itself, also *)
(* when its lower-cased form is listed as a synonym of another canonical     *)
(* name.                                                                     *)
C12_CanonicalMapsToItself ==
  (/\ pc = "returned"
   /\ ~request.normalized
   /\ \E i \in 1..Len(synonyms) : synonyms[i].canonical = request.skill_name) =>
    response = request.skill_name

-----------------------------------------------------------------------------
(* Regular-expression matching, as re.findall computes it *)

Digits == {"0", "1", "2", "3", "4", "5", "6", "7", "8", "9"}

(* \w *)
IsWordChar(c) == IsCased(c) \/ c \in Digits \/ c = "_"

(* \b just before position p of t: one side is a word character, the other *)
(* side is not; outside the text there is no word character                 *)
Boundary(t, p) ==
  LET before == p > 1 /\ p - 1 <= Len(t) /\ IsWordChar(t[p - 1])
      after  == p >= 1 /\ p <= Len(t) /\ IsWordChar(t[p])
  IN before # after

(* the positions where the literal w starts in t *)
Occurrences(t, w) ==
  {p \in 1..(Len(t) - Len(w) + 1) : SubSeq(t, p, p + Len(w) - 1) = w}

(* len(re.findall(r'\b' + re.escape(w) + r'\b', t)): the matches are taken *)
(* from left to right and do not overlap                                   *)
RECURSIVE CountFrom(_, _, _)
CountFrom(at, width, from) ==
  LET next == {p \in at : p >= from}
  IN IF next = {} THEN 0 ELSE 1 + CountFrom(at, width, First(next) + width)

WordMatches(t, w) ==
  CountFrom({p \in Occurrences(t, w) : Boundary(t, p) /\ Boundary(t, p + Len(w))},
            Len(w), 1)

(* the window of the context pattern, .{0,50} on either side *)
Window == 50

Last(S) == CHOOSE i \in S : \A j \in S : j <= i

(* `.` matches any character but the newline *)
NoNewline(t, a, b) == \A i \in a..b : t[i] # "\n"

(* re.findall(rf'.{{0,50}}{re.escape(w)}.{{0,50}}', t), scanning from position *)
(* from: the match starts at the leftmost position from which an occurrence of *)
(* w is within reach, the greedy prefix runs to the last occurrence in reach,  *)
(* the greedy suffix takes up to 50 characters of the line, and the scan goes  *)
(* on after the match                                                          *)
RECURSIVE ContextMatches(_, _, _, _)
ContextMatches(t, w, occ, from) ==
  LET next == {p \in occ : p >= from}
  IN IF next = {} THEN <<>>
     ELSE LET p1 == First(next)
              lo == IF p1 - Window > from THEN p1 - Window ELSE from
              s  == First({x \in lo..p1 : NoNewline(t, x, p1 - 1)})
              p  == Last({x \in next : x - s <= Window /\ NoNewline(t, s, x - 1)})
              e  == p + Len(w) - 1
              j  == Last({x \in 0..Window : e + x <= Len(t) /\ NoNewline(t, e + 1, e + x)})
          IN <<SubSeq(t, s, e + j)>> \o ContextMatches(t, w, occ, e + j + 1)

(* ' '.join(matches) *)
RECURSIVE Join(_)
Join(matches) ==
  IF Len(matches) = 0 THEN <<>>
  ELSE IF Len(matches) = 1 THEN matches[1]
  ELSE matches[1] \o <<" ">> \o Join(Tail(matches))

-----------------------------------------------------------------------------
(* ResumeParser._estimate_proficiency, resume_parser.py lines 107-170 *)

expert_keywords ==
  <<<<"e", "x", "p", "e", "r", "t">>, <<"e", "x", "p", "e", "r", "t", "i", "s", "e">>, <<"m", "a", "s", "t", "e", "r", "y">>, <<"m", "a", "s", "t", "e", "r">>, <<"a", "r", "c", "h", "i", "t", "e", "c", "t">>, <<"l", "e", "a", "d">>,
    <<"5", "+", " ", "y", "e", "a", "r", "s">>, <<"6", " ", "y", "e", "a", "r", "s">>, <<"7", " ", "y", "e", "a", "r", "s">>, <<"8", " ", "y", "e", "a", "r", "s">>, <<"1", "0", " ", "y", "e", "a", "r", "s">>>>
advanced_keywords ==
  <<<<"a", "d", "v", "a", "n", "c", "e", "d">>, <<"s", "e", "n", "i", "o", "r">>, <<"p", "r", "o", "f", "i", "c", "i", "e", "n", "t">>, <<"3", " ", "y", "e", "a", "r", "s">>, <<"4", " ", "y", "e", "a", "r", "s">>, <<"5", " ", "y", "e", "a", "r", "s">>,
    <<"e", "x", "t", "e", "n", "s", "i", "v", "e">>, <<"s", "t", "r", "o", "n", "g">>, <<"d", "e", "e", "p", " ", "k", "n", "o", "w", "l", "e", "d", "g", "e">>>>
intermediate_keywords ==
  <<<<"i", "n", "t", "e", "r", "m", "e", "d", "i", "a", "t", "e">>, <<"e", "x", "p", "e", "r", "i", "e", "n", "c", "e", "d">>, <<"2", " ", "y", "e", "a", "r", "s">>, <<"3", " ", "y", "e", "a", "r", "s">>, <<"w", "o", "r", "k", "i", "n", "g", " ", "k", "n", "o", "w", "l", "e", "d", "g", "e">>,
    <<"h", "a", "n", "d", "s", "-", "o", "n">>, <<"p", "r", "a", "c", "t", "i", "c", "a", "l">>>>
beginner_keywords ==
  <<<<"b", "e", "g", "i", "n", "n", "e", "r">>, <<"b", "a", "s", "i", "c">>, <<"f", "a", "m", "i", "l", "i", "a", "r">>, <<"e", "x", "p", "o", "s", "u", "r", "e">>, <<"1", " ", "y", "e", "a", "r">>, <<"s", "o", "m", "e", " ", "e", "x", "p", "e", "r", "i", "e", "n", "c", "e">>,
    <<"i", "n", "t", "r", "o", "d", "u", "c", "e", "d">>>>
novice_keywords ==
  <<<<"l", "e", "a", "r", "n", "i", "n", "g">>, <<"s", "t", "u", "d", "i", "e", "d">>, <<"c", "o", "u", "r", "s", "e", "w", "o", "r", "k">>, <<"a", "c", "a", "d", "e", "m", "i", "c">>, <<"t", "h", "e", "o", "r", "y">>>>

(* the tiers in the order the code tests them, each with the value it returns *)
tiers ==
  << [keywords |-> expert_keywords,       value |-> 500],
     [keywords |-> advanced_keywords,     value |-> 420],
     [keywords |-> intermediate_keywords, value |-> 350],
     [keywords |-> beginner_keywords,     value |-> 250],
     [keywords |-> novice_keywords,       value |-> 150] >>

NoContext      == 250   \* line 123: return 2.5
DefaultLevel   == 300   \* line 170: return 3.0

(* any(keyword in context for keyword in keywords) *)
AnyKeyword(keywords, context) ==
  \E k \in 1..Len(keywords) : IsSubstring(keywords[k], context)

(* lines 116-120: the matches of the context pattern in text.lower() *)
ContextOf(text, skill) ==
  LET text_lower == Lower(text)
      skill_lower == Lower(skill)
  IN ContextMatches(text_lower, skill_lower, Occurrences(text_lower, skill_lower), 1)

(* mutant: the tiers are tried from novice up to expert *)
EstimateProficiencyLowestFirst(text, skill) ==
  LET matches == ContextOf(text, skill)
      context == Join(matches)
      hit == {k \in 1..Len(tiers) : AnyKeyword(tiers[k].keywords, context)}
  IN IF matches = <<>> THEN NoContext
     ELSE IF hit # {} THEN tiers[Last(hit)].value
     ELSE DefaultLevel

EstimateProficiency(text, skill) ==
  LET matches == ContextOf(text, skill)
      context == Join(matches)
      hit == {k \in 1..Len(tiers) : AnyKeyword(tiers[k].keywords, context)}
  IN IF matches = <<>> THEN NoContext
     ELSE IF hit # {} THEN tiers[First(hit)].value
     ELSE DefaultLevel

-----------------------------------------------------------------------------
(* ResumeParser._extract_skills, resume_parser.py lines 75-105 *)

(* round(x, 1) of a level held in hundredths: to the nearest tenth, a half *)
(* to the even tenth                                                       *)
RoundTenth(v) ==
  LET q == v \div 10
      r == v % 10
  IN 10 * (IF r > 5 \/ (r = 5 /\ q % 2 = 1) THEN q + 1 ELSE q)

(* mutant: the confidence without its cap *)
ConfidenceUncapped(mentions) == 60 + mentions * 8

(* line 93: min(0.95, 0.6 + (mentions * 0.08)), in hundredths; round(x, 2) *)
(* of line 98 leaves a number of hundredths as it is                       *)
Confidence(mentions) == Min(95, 60 + mentions * 8)

(* the key of line 103 compared as Python compares tuples *)
KeyLeq(a, b) ==
  \/ a.proficiency_score < b.proficiency_score
  \/ /\ a.proficiency_score = b.proficiency_score
     /\ a.confidence <= b.confidence

InsertSkillAsc(sorted, x) ==
  LET after == {k \in 1..Len(sorted) : KeyLeq(sorted[k], x)}
      n == IF after = {} THEN 0 ELSE Last(after)
  IN SubSeq(sorted, 1, n) \o <<x>> \o SubSeq(sorted, n + 1, Len(sorted))

RECURSIVE SortSkillsAsc(_)
SortSkillsAsc(s) ==
  IF s = <<>> THEN <<>>
  ELSE InsertSkillAsc(SortSkillsAsc(SubSeq(s, 1, Len(s) - 1)), s[Len(s)])

(* mutant: sorted without reverse=True *)
SortSkillsAscending(s) == SortSkillsAsc(s)

(* line 103: found_skills.sort(key=..., reverse=True), a stable sort *)
SortSkills(s) == Reverse(SortSkillsAsc(Reverse(s)))

(* lines 81-100: the loop over self.all_skills *)
RECURSIVE FoundSkills(_, _, _)
FoundSkills(catalog, text, i) ==
  IF i > Len(catalog) THEN <<>>
  ELSE LET skill == catalog[i]
           mentions == WordMatches(Lower(text), Lower(skill))
       IN (IF mentions > 0
           THEN << [name |-> skill,
                    proficiency_score |-> RoundTenth(EstimateProficiency(text, skill)),
                    confidence |-> Confidence(mentions)] >>
           ELSE <<>>) \o FoundSkills(catalog, text, i + 1)

(* a call _extract_skills(text) *)
ExtractSkills(text) ==
  /\ pc = "idle"
  /\ request' = text
  /\ response' = SortSkills(FoundSkills(all_skills, text, 1))
  /\ pc' = "returned"
  /\ UNCHANGED <<synonyms, reverse_map, all_skills>>
  /\ UNCHANGED scorer_vars
  /\ UNCHANGED api_vars

-----------------------------------------------------------------------------
(* Skill-extractor inputs *)

MaxRepeat  == 4   \* repetitions of a skill name after its first mention
MaxCatalog == 2   \* skills in the catalog (profile specification)

Python          == <<"P", "y", "t", "h", "o", "n">>
python_lc       == <<"p", "y", "t", "h", "o", "n">>
MachineLearning == <<"M", "a", "c", "h", "i", "n", "e", " ", "L", "e", "a", "r", "n", "i", "n", "g">>

(* s repeated n times *)
Repeat(s, n) == [k \in 1..(n * Len(s)) |-> s[((k - 1) % Len(s)) + 1]]

(* what a resume writes before a skill name *)
Cues ==
  {<<>>, <<"E", "x", "p", "e", "r", "t", " ", "i", "n", " ">>, <<"a", "d", "v", "a", "n", "c", "e", "d", " ">>, <<"h", "a", "n", "d", "s", "-", "o", "n", " ">>, <<"b", "a", "s", "i", "c", " ">>, <<"s", "t", "u", "d", "i", "e", "d", " ">>,
   <<"9", " ", "y", "e", "a", "r", "s", " ", "o", "f", " ">>, <<"1", "0", " ", "y", "e", "a", "r", "s", " ", "o", "f", " ">>}
TailCues == {<<>>, <<"E", "x", "p", "e", "r", "t", " ", "i", "n", " ">>, <<"s", "t", "u", "d", "i", "e", "d", " ">>}

MentionedNames == {Python, Java, MachineLearning}

(* between two phrases: the same line, the next line, or more than a window *)
(* of other characters on the same line                                     *)
Separators == {<<",", " ">>, <<"\n">>, <<" ">> \o Repeat(<<".">>, Window + 1) \o <<" ">>}

Phrase(cue, name, r) == cue \o name \o Repeat(<<",", " ">> \o name, r)

Texts ==
  LET heads == {Phrase(cue, name, r) :
                  cue \in Cues, name \in MentionedNames, r \in {0, 2, MaxRepeat}}
      tails == {sep \o Phrase(cue, name, 0) :
                  sep \in Separators, cue \in TailCues, name \in MentionedNames}
  IN heads \cup {h \o t : h \in heads, t \in tails}

(* ResumeParser.__init__ with a catalog of one skill and an empty synonym table *)
InitSkills ==
  /\ synonyms = <<>>
  /\ reverse_map = BuildReverseMap(synonyms, 1, <<>>)
  /\ all_skills \in {<<name>> : name \in MentionedNames}
  /\ request = <<>>
  /\ response = <<>>
  /\ pc = "idle"
  /\ NoScorer
  /\ ApiIdle

NextSkills ==
  \/ \E text \in Texts : ExtractSkills(text)
  \/ Release

SpecSkills == InitSkills /\ [][NextSkills]_vars

-----------------------------------------------------------------------------
(* Properties of the skill extractor, stated on the outcome of a call of *)
(* _extract_skills                                                       *)

Extracted == pc = "returned"

(* the whole-word mentions of an emitted skill in the text of the call *)
MentionsOf(k) == WordMatches(Lower(request), Lower(response[k].name))

(* the context the estimate of an emitted skill was made from *)
ContextFor(k) == Join(ContextOf(request, response[k].name))

(* C13: every emitted skill has a confidence in [0.6, 0.95] equal to          *)
(* min(0.95, 0.6 + 0.08 m) for its whole-word mention count m >= 1, and a     *)
(* proficiency_score in [0.0, 5.0].                                           *)
C13_ConfidenceAndRange ==
  Extracted =>
    \A k \in 1..Len(response) :
      LET m == MentionsOf(k)
      IN /\ m >= 1
         /\ response[k].confidence >= 60
         /\ response[k].confidence <= 95
         /\ response[k].confidence = (IF 60 + 8 * m <= 95 THEN 60 + 8 * m ELSE 95)
         /\ response[k].proficiency_score >= 0
         /\ response[k].proficiency_score <= 5 * Scale

(* a skill mentioned five times or more, its confidence held at the cap *)
C13_Witness ==
  /\ Extracted
  /\ \E k \in 1..Len(response) :
       /\ MentionsOf(k) >= 5
       /\ 60 + 8 * MentionsOf(k) > 95
       /\ response[k].confidence = 95

(* the tiers from the highest priority down, with the values claimed for them *)
ClaimedTierValues == <<500, 420, 350, 250, 150>>

TierPresent(t, context) == AnyKeyword(tiers[t].keywords, context)

(* the text "Expert in Python, Python, Python" *)
ExpertInPythonThrice == Phrase(<<"E", "x", "p", "e", "r", "t", " ", "i", "n", " ">>, Python, 2)

(* C14: the proficiency of an emitted skill is the value of the highest-      *)
(* priority tier (expert 5.0, advanced 4.2, intermediate 3.5, beginner 2.5,   *)
(* novice 1.5) that has a keyword in the skill's context, whatever the        *)
(* mention count and the lower-tier keywords present; "Expert in Python" with *)
(* Python mentioned three times gives 5.0 with confidence 0.84.               *)
C14_HighestTierWins ==
  Extracted =>
    /\ \A k \in 1..Len(response) : \A t \in 1..Len(ClaimedTierValues) :
         (/\ TierPresent(t, ContextFor(k))
          /\ \A h \in 1..(t - 1) : ~TierPresent(h, ContextFor(k))) =>
           response[k].proficiency_score = ClaimedTierValues[t]
    /\ (request = ExpertInPythonThrice /\ all_skills = <<Python>>) =>
         response = <<[name |-> Python, proficiency_score |-> 500, confidence |-> 84]>>

(* a skill mentioned three times or more whose context holds an expert and a *)
(* novice keyword                                                            *)
C14_Witness ==
  /\ Extracted
  /\ \E k \in 1..Len(response) :
       /\ MentionsOf(k) >= 3
       /\ TierPresent(1, ContextFor(k))
       /\ TierPresent(5, ContextFor(k))
       /\ response[k].proficiency_score = 500

(* the year cues claimed for the expert tier *)
ClaimedExpertYears ==
  <<<<"5", "+", " ", "y", "e", "a", "r", "s">>, <<"6", " ", "y", "e", "a", "r", "s">>, <<"7", " ", "y", "e", "a", "r", "s">>, <<"8", " ", "y", "e", "a", "r", "s">>, <<"9", " ", "y", "e", "a", "r", "s">>, <<"1", "0", " ", "y", "e", "a", "r", "s">>>>

(* C15: a skill whose context holds an expert-tier cue has proficiency 5.0,   *)
(* the expert year cues being every count from "5+ years" to "10 years":      *)
(* "5+ years", "6 years", "7 years", "8 years", "9 years", "10 years".        *)
C15_ExpertYearCues ==
  Extracted =>
    \A k \in 1..Len(response) :
      (TierPresent(1, ContextFor(k)) \/ AnyKeyword(ClaimedExpertYears, ContextFor(k))) =>
        response[k].proficiency_score = 500

(* the characters up to a window before and after each whole-word mention of *)
(* a skill, the mention itself left out                                      *)
Surroundings(text, skill) ==
  LET t == Lower(text)
      w == Lower(skill)
      at == {p \in Occurrences(t, w) : Boundary(t, p) /\ Boundary(t, p + Len(w))}
  IN {SubSeq(t, IF p - Window < 1 THEN 1 ELSE p - Window, p - 1) : p \in at}
       \cup {SubSeq(t, p + Len(w), Min(Len(t), p + Len(w) + Window - 1)) : p \in at}

(* C16: for every catalog skill, whatever its name, a mention whose            *)
(* surrounding text holds no tier keyword gives the default proficiency 3.0.   *)
C16_DefaultWithoutKeyword ==
  Extracted =>
    \A k \in 1..Len(response) :
      (\A around \in Surroundings(request, response[k].name) :
         \A t \in 1..Len(tiers) : ~TierPresent(t, around)) =>
        response[k].proficiency_score = 300

-----------------------------------------------------------------------------
(* Profile inputs: catalogs of up to MaxCatalog skills, among them names that *)
(* differ by case only and a synonym                                          *)

py == <<"p", "y">>

CatalogNames == {Python, python_lc, py, Java, MachineLearning}

(* line 47: list(set(all_skills)) holds every listed name once, in any order *)
Orderings(S) ==
  {s \in [1..Cardinality(S) -> S] : \A i, j \in 1..Cardinality(S) : i # j => s[i] # s[j]}

SkillCatalogs ==
  UNION {Orderings(S) : S \in {T \in SUBSET CatalogNames : Cardinality(T) <= MaxCatalog}}

ProfileTables == {<<>>, <<[canonical |-> Python, synonyms_list |-> <<py>>]>>}

ProfileTexts ==
  {Phrase(c1, n1, r) \o <<"\n">> \o Phrase(c2, n2, 0) :
     c1 \in {<<>>, <<"E", "x", "p", "e", "r", "t", " ", "i", "n", " ">>, <<"b", "a", "s", "i", "c", " ">>}, n1 \in {Python, Java, py}, r \in {0, 1},
     c2 \in {<<>>, <<"E", "x", "p", "e", "r", "t", " ", "i", "n", " ">>}, n2 \in {Python, Java, MachineLearning}}

(* ResumeParser.__init__: the normalizer is loaded, the catalog flattened *)
InitProfile ==
  /\ synonyms \in ProfileTables
  /\ reverse_map = BuildReverseMap(synonyms, 1, <<>>)
  /\ all_skills \in SkillCatalogs
  /\ request = <<>>
  /\ response = <<>>
  /\ pc = "idle"
  /\ NoScorer
  /\ ApiIdle

NextProfile ==
  \/ \E text \in ProfileTexts : ExtractSkills(text)
  \/ Release

SpecProfile == InitProfile /\ [][NextProfile]_vars

(* the sort key of an emitted skill is not below that of another *)
KeyGeq(a, b) ==
  \/ a.proficiency_score > b.proficiency_score
  \/ /\ a.proficiency_score = b.proficiency_score
     /\ a.confidence >= b.confidence

(* C17: the list returned by _extract_skills is sorted non-increasing by *)
(* (proficiency_score, confidence).                                      *)
C17_SortedByProficiencyConfidence ==
  Extracted =>
    \A k \in 1..(Len(response) - 1) : KeyGeq(response[k], response[k + 1])

CatalogPlace(name) == CHOOSE i \in 1..Len(all_skills) : all_skills[i] = name

(* two skills of equal proficiency, the more confident first although it *)
(* comes later in the catalog                                            *)
C17_Witness ==
  /\ Extracted
  /\ Len(response) = 2
  /\ response[1].proficiency_score = response[2].proficiency_score
  /\ response[1].confidence > response[2].confidence
  /\ CatalogPlace(response[1].name) > CatalogPlace(response[2].name)

(* C18: no two emitted skills have names that normalize to the same canonical *)
(* name, for any catalog and text.                                            *)
C18_OnePerCanonicalName ==
  Extracted =>
    \A i, j \in 1..Len(response) :
      i # j => Normalize(reverse_map, response[i].name) #
               Normalize(reverse_map, response[j].name)

-----------------------------------------------------------------------------
(* ResumeParser._extract_experience, resume_parser.py lines 282-307: what is *)
(* done with the hits the templates of lines 200-280 have pooled             *)

(* the characters of s at the places in kept, in order *)
RECURSIVE KeepAt(_, _, _)
KeepAt(s, kept, i) ==
  IF i > Len(s) THEN <<>>
  ELSE (IF i \in kept THEN <<s[i]>> ELSE <<>>) \o KeepAt(s, kept, i + 1)

(* re.sub(r'\s+', ' ', s): a run of whitespace becomes one space *)
CollapseWhitespace(s) ==
  KeepAt([i \in 1..Len(s) |-> IF s[i] \in Whitespace THEN " " ELSE s[i]],
         {i \in 1..Len(s) : ~(s[i] \in Whitespace /\ i > 1 /\ s[i - 1] \in Whitespace)}, 1)

(* re.sub(r'[chars]+$', '', s): the trailing run of the characters is removed *)
StripTrailing(s, chars) ==
  LET kept == {i \in 1..Len(s) : s[i] \notin chars}
  IN IF kept = {} THEN <<>> ELSE SubSeq(s, 1, Last(kept))

(* str.isupper(): a cased character, and no lower-case one *)
IsUpper(s) ==
  /\ \E i \in 1..Len(s) : s[i] \in DOMAIN ToLower
  /\ \A i \in 1..Len(s) : s[i] \notin DOMAIN ToUpper

(* lines 287-291 *)
CleanExperience(exp) ==
  [position |-> Strip(CollapseWhitespace(exp.position)),
   company  |-> Strip(CollapseWhitespace(
                  StripTrailing(exp.company, {",", ".", "|"} \cup Whitespace))),
   duration |-> exp.duration]

(* lines 294-299: the hit is skipped *)
SkippedExperience(exp) ==
  \/ Len(exp.company) < 2
  \/ Len(exp.position) < 5
  \/ IsUpper(exp.company) /\ Len(exp.company) < 10

(* line 301 *)
ExperienceKey(exp) == <<Lower(exp.position), Lower(exp.company)>>

(* lines 286-304: the loop over the pooled hits *)
RECURSIVE UniqueExperiences(_, _, _, _)
UniqueExperiences(experiences, i, seen, unique_experiences) ==
  IF i > Len(experiences) THEN unique_experiences
  ELSE LET exp == CleanExperience(experiences[i])
           key == ExperienceKey(exp)
       IN IF SkippedExperience(exp) \/ key \in seen
          THEN UniqueExperiences(experiences, i + 1, seen, unique_experiences)
          ELSE UniqueExperiences(experiences, i + 1, seen \cup {key},
                                 Append(unique_experiences, exp))

(* line 306: the entries returned *)
TopExperiences == 5

(* s[:n] *)
Prefix(s, n) == SubSeq(s, 1, Min(n, Len(s)))

(* mutant: the pool is cut to five hits before it is cleaned and filtered *)
PostProcessCutFirst(experiences) ==
  UniqueExperiences(Prefix(experiences, TopExperiences), 1, {}, <<>>)

(* lines 282-306 *)
PostProcess(experiences) ==
  Prefix(UniqueExperiences(experiences, 1, {}, <<>>), TopExperiences)

(* a call _extract_experience(text, doc) on a text in which the templates *)
(* find the hits of experiences, in this order                            *)
ExtractExperience(experiences) ==
  /\ pc = "idle"
  /\ request' = experiences
  /\ response' = PostProcess(experiences)
  /\ pc' = "returned"
  /\ UNCHANGED <<synonyms, reverse_map, all_skills>>
  /\ UNCHANGED scorer_vars
  /\ UNCHANGED api_vars

(* Experience inputs: pools of up to MaxHits hits. The hit in place i is the *)
(* job of that place, the first job written differently, a hit the filter    *)
(* skips, or the first job with its company in capitals (skipped as well)    *)
MaxHits == 6

Positions == <<<<"D", "a", "t", "a", " ", "E", "n", "g", "i", "n", "e", "e", "r">>, <<"S", "o", "f", "t", "w", "a", "r", "e", " ", "D", "e", "v", "e", "l", "o", "p", "e", "r">>, <<"B", "u", "s", "i", "n", "e", "s", "s", " ", "A", "n", "a", "l", "y", "s", "t">>>>
Companies == <<<<"A", "c", "m", "e", " ", "C", "o", "r", "p">>, <<"G", "l", "o", "b", "e", "x">>, <<"I", "n", "i", "t", "e", "c", "h", " ", "I", "n", "c">>>>

Job(i) ==
  [position |-> Positions[((i - 1) % 3) + 1],
   company  |-> Companies[(((i - 1) \div 3) % 3) + 1],
   duration |-> <<"0", "6", "/", "2", "0", "1", "9", " ", "-", " ", "0", "2", "/", "2", "0", "2", "2">>]

FirstJobAgain ==
  [position |-> <<"d", "a", "t", "a", " ", " ", " ", "e", "n", "g", "i", "n", "e", "e", "r", " ">>, company |-> <<"A", "C", "M", "E", " ", " ", "C", "o", "r", "p", ",", " ", "|">>,
   duration |-> <<"J", "u", "n", " ", "2", "0", "1", "9", " ", "-", " ", "F", "e", "b", " ", "2", "0", "2", "2">>]

FirstJobInCapitals == [Job(1) EXCEPT !.company = <<"A", "C", "M", "E", " ", "C", "O", "R", "P">>]

SkippedHit(i) ==
  IF i % 3 = 1 THEN [Job(i) EXCEPT !.company = <<"X", ".">>]
  ELSE IF i % 3 = 2 THEN [Job(i) EXCEPT !.position = <<"L", "e", "a", "d">>]
  ELSE [Job(i) EXCEPT !.company = <<"I", "B", "M">>]

HitsAt(i) == {Job(i), FirstJobAgain, SkippedHit(i), FirstJobInCapitals}

RECURSIVE PoolsOfLength(_)
PoolsOfLength(n) ==
  IF n = 0 THEN {<<>>}
  ELSE {Append(pool, hit) : pool \in PoolsOfLength(n - 1), hit \in HitsAt(n)}

Pools == UNION {PoolsOfLength(n) : n \in 0..MaxHits}

InitExperience ==
  /\ synonyms = <<>>
  /\ reverse_map = <<>>
  /\ all_skills = <<>>
  /\ request = <<>>
  /\ response = <<>>
  /\ pc = "idle"
  /\ NoScorer
  /\ ApiIdle

NextExperience ==
  \/ \E experiences \in Pools : ExtractExperience(experiences)
  \/ Release

SpecExperience == InitExperience /\ [][NextExperience]_vars

-----------------------------------------------------------------------------
(* Properties of the experience extractor *)

(* the hits of the pool, cleaned *)
CleanedPool == [i \in 1..Len(request) |-> CleanExperience(request[i])]

JobKey(exp) == <<Lower(exp.position), Lower(exp.company)>>

(* the hit passes the filter *)
Plausible(exp) ==
  /\ Len(exp.company) >= 2
  /\ Len(exp.position) >= 5
  /\ ~(IsUpper(exp.company) /\ Len(exp.company) < 10)

(* the places of the hits that pass the filter and whose lower-cased *)
(* (position, company) no earlier hit that passes it has             *)
SurvivorsOf(cleaned) ==
  LET plausible == {i \in 1..Len(cleaned) : Plausible(cleaned[i])}
      keys == [i \in 1..Len(cleaned) |-> JobKey(cleaned[i])]
  IN {i \in plausible : \A j \in plausible : j < i => keys[j] # keys[i]}

(* the k-th place of a set of places *)
Nth(places, k) == CHOOSE i \in places : Cardinality({j \in places : j <= i}) = k

(* C19: for any pooled list of experience hits the result is the first five  *)
(* of the list got by cleaning each hit, dropping the hits with a company    *)
(* shorter than 2, a position shorter than 5 or an all-capitals company      *)
(* shorter than 10 characters, and keeping the first hit of each lower-cased *)
(* (position, company); it has at most five entries with different keys, and *)
(* a dropped or repeated hit takes none of the five places.                  *)
C19_FirstFiveSurvivors ==
  Extracted =>
    LET cleaned == CleanedPool
        survivors == SurvivorsOf(cleaned)
    IN /\ Len(response) <= 5
       /\ Len(response) = Min(5, Cardinality(survivors))
       /\ \A k \in 1..Len(response) : response[k] = cleaned[Nth(survivors, k)]
       /\ \A k, l \in 1..Len(response) : k # l => JobKey(response[k]) # JobKey(response[l])

(* six hits, one of the first five dropped or repeated, and the sixth in the *)
(* fifth place of the result                                                 *)
C19_Witness ==
  /\ Extracted
  /\ Len(request) = 6
  /\ Len(response) = 5
  /\ LET cleaned == CleanedPool
     IN /\ (1..5) \ SurvivorsOf(cleaned) # {}
        /\ response[5] = cleaned[6]

-----------------------------------------------------------------------------
(* Regular expressions of the education templates, matched as Python's re   *)
(* matches them: a pattern is a sequence of nodes, tried from left to right *)
(* with backtracking, the first way to match being the one taken            *)

(* a literal string *)
Lit(s) == [op |-> "lit", s |-> s]

(* a character class repeated; max = -1 stands for no upper limit *)
Chars(set, min, max, greedy) ==
  [op |-> "cls", set |-> set, neg |-> FALSE, min |-> min, max |-> max, greedy |-> greedy]
NotChars(set, min, max, greedy) ==
  [op |-> "cls", set |-> set, neg |-> TRUE, min |-> min, max |-> max, greedy |-> greedy]

One(set)      == Chars(set, 1, 1, TRUE)        \* [set]
Maybe(set)    == Chars(set, 0, 1, TRUE)        \* [set]?
Plus(set)     == Chars(set, 1, -1, TRUE)       \* [set]+
Star(set)     == Chars(set, 0, -1, TRUE)       \* [set]*
LazyPlus(set) == Chars(set, 1, -1, FALSE)      \* [set]+?
Times(set, n) == Chars(set, n, n, TRUE)        \* [set]{n}
AtLeast(set, n) == Chars(set, n, -1, TRUE)     \* [set]{n,}
NotLazyPlus(set) == NotChars(set, 1, -1, FALSE) \* [^set]+?

(* (?:a|b|...), each alternative a sequence of nodes *)
Group(alts) == [op |-> "alt", alts |-> alts]

(* (?:body)? *)
Optional(body) == Group(<<body, <<>>>>)

(* the parentheses of capture group g *)
Open(g)  == [op |-> "open", g |-> g]
Close(g) == [op |-> "close", g |-> g]

(* $ *)
AtEnd == [op |-> "end"]

Uppers == DOMAIN ToLower
Lowers == DOMAIN ToUpper
Letters == Uppers \cup Lowers

(* re.IGNORECASE: the subject is matched in lower case, a literal in lower *)
(* case, and a class takes a letter in either case                        *)
Subject(t, ic) == IF ic THEN Lower(t) ELSE t

InClass(c, node, ic) ==
  LET hit == c \in node.set \/ (ic /\ UpperChar(c) \in node.set)
  IN IF node.neg THEN ~hit ELSE hit

LitAt(s, t, pos, ic) ==
  /\ pos + Len(s) - 1 <= Len(t)
  /\ \A k \in 1..Len(s) : t[pos + k - 1] = (IF ic THEN LowerChar(s[k]) ELSE s[k])

(* how many characters from pos on are in the class, up to the node's max *)
RunLength(node, t, pos, ic) ==
  LET stop == {i \in pos..Len(t) : ~InClass(t[i], node, ic)}
      run  == IF stop = {} THEN Len(t) + 1 - pos ELSE First(stop) - pos
  IN IF node.max >= 0 /\ run > node.max THEN node.max ELSE run

MaxGroups == 4
NoGroups == [g \in 1..MaxGroups |-> <<>>]

(* Match gives <<>> when the pattern does not match t from pos, and otherwise *)
(* the first match found: where it ends and where each group started and     *)
(* ended. The node to match is nodes[i]; stack holds what follows the groups  *)
(* being matched, innermost first                                             *)
RECURSIVE Match(_, _, _, _, _, _, _)
RECURSIVE TryCounts(_, _, _, _, _, _, _, _, _, _)
RECURSIVE TryAlts(_, _, _, _, _, _, _)

(* the counts lo..hi of a quantifier are tried in the engine's order, most  *)
(* first when greedy and fewest first when lazy; the range is halved so that *)
(* the evaluation stays shallow                                              *)
TryCounts(nodes, i, stack, t, pos, groups, ic, lo, hi, greedy) ==
  IF lo = hi THEN Match(nodes, i, stack, t, pos + lo, groups, ic)
  ELSE LET mid == (lo + hi) \div 2
           r == IF greedy
                THEN TryCounts(nodes, i, stack, t, pos, groups, ic, mid + 1, hi, greedy)
                ELSE TryCounts(nodes, i, stack, t, pos, groups, ic, lo, mid, greedy)
       IN IF r # <<>> THEN r
          ELSE IF greedy
          THEN TryCounts(nodes, i, stack, t, pos, groups, ic, lo, mid, greedy)
          ELSE TryCounts(nodes, i, stack, t, pos, groups, ic, mid + 1, hi, greedy)

TryAlts(alts, a, stack, t, pos, groups, ic) ==
  IF a > Len(alts) THEN <<>>
  ELSE LET r == Match(alts[a], 1, stack, t, pos, groups, ic)
       IN IF r # <<>> THEN r ELSE TryAlts(alts, a + 1, stack, t, pos, groups, ic)

Match(nodes, i, stack, t, pos, groups, ic) ==
  IF i > Len(nodes)
  THEN IF Len(stack) = 0 THEN <<[end |-> pos, groups |-> groups]>>
       ELSE Match(stack[1][1], stack[1][2], Tail(stack), t, pos, groups, ic)
  ELSE LET node == nodes[i]
       IN CASE node.op = "lit" ->
                 IF LitAt(node.s, t, pos, ic)
                 THEN Match(nodes, i + 1, stack, t, pos + Len(node.s), groups, ic)
                 ELSE <<>>
            [] node.op = "cls" ->
                 LET run == RunLength(node, t, pos, ic)
                 IN IF run < node.min THEN <<>>
                    ELSE TryCounts(nodes, i + 1, stack, t, pos, groups, ic,
                                   node.min, run, node.greedy)
            [] node.op = "alt" ->
                 TryAlts(node.alts, 1, <<<<nodes, i + 1>>>> \o stack, t, pos, groups, ic)
            [] node.op = "open" ->
                 Match(nodes, i + 1, stack, t, pos,
                       [groups EXCEPT ![node.g] = <<pos, pos>>], ic)
            [] node.op = "close" ->
                 Match(nodes, i + 1, stack, t, pos,
                       [groups EXCEPT ![node.g] = <<@[1], pos>>], ic)
            [] node.op = "end" ->
                 IF pos = Len(t) + 1 \/ (pos = Len(t) /\ t[pos] = "\n")
                 THEN Match(nodes, i + 1, stack, t, pos, groups, ic)
                 ELSE <<>>

(* the text of each group of a match; a group that took no part is '' *)
GroupTexts(t, groups) ==
  [g \in 1..MaxGroups |->
     IF groups[g] = <<>> THEN <<>> ELSE SubSeq(t, groups[g][1], groups[g][2] - 1)]

(* the leftmost match that starts in lo..hi, <<>> if there is none; the     *)
(* range of starting places is halved so that the evaluation stays shallow   *)
RECURSIVE SearchFrom(_, _, _, _, _)
SearchFrom(nodes, subject, lo, hi, ic) ==
  IF lo > hi THEN <<>>
  ELSE IF lo = hi
  THEN LET r == Match(nodes, 1, <<>>, subject, lo, NoGroups, ic)
       IN IF r = <<>> THEN <<>>
          ELSE <<[at |-> lo, end |-> r[1].end, groups |-> r[1].groups]>>
  ELSE LET mid == (lo + hi) \div 2
           r == SearchFrom(nodes, subject, lo, mid, ic)
       IN IF r # <<>> THEN r ELSE SearchFrom(nodes, subject, mid + 1, hi, ic)

(* re.findall(pattern, t): the matches from left to right, none overlapping *)
RECURSIVE FindAllFrom(_, _, _, _, _)
FindAllFrom(nodes, t, subject, s, ic) ==
  LET m == SearchFrom(nodes, subject, s, Len(t) + 1, ic)
  IN IF m = <<>> THEN <<>>
     ELSE <<GroupTexts(t, m[1].groups)>>
            \o FindAllFrom(nodes, t, subject,
                           IF m[1].end > m[1].at THEN m[1].end ELSE m[1].at + 1, ic)

FindAll(nodes, t, ic) == FindAllFrom(nodes, t, Subject(t, ic), 1, ic)

(* re.search(pattern, t): the leftmost match, <<>> if there is none *)
Search(nodes, t, ic) ==
  LET m == SearchFrom(nodes, Subject(t, ic), 1, Len(t) + 1, ic)
  IN IF m = <<>> THEN <<>> ELSE <<GroupTexts(t, m[1].groups)>>

-----------------------------------------------------------------------------
(* ResumeParser._extract_education, resume_parser.py lines 334-439 *)

Ws         == Whitespace
Apostrophe == {"'"}
Dot        == {"."}

(* Master'?s? and Bachelor'?s? *)
Masters   == <<Lit(<<"M", "a", "s", "t", "e", "r">>), Maybe(Apostrophe), Maybe({"s"})>>
Bachelors == <<Lit(<<"B", "a", "c", "h", "e", "l", "o", "r">>), Maybe(Apostrophe), Maybe({"s"})>>
BTech     == <<Lit(<<"B">>), Maybe(Dot), Lit(<<"T", "e", "c", "h">>)>>
MTech     == <<Lit(<<"M">>), Maybe(Dot), Lit(<<"T", "e", "c", "h">>)>>

(* Bachelor\s+of\s+Technology and the like *)
FullDegree(first, last) == <<Lit(first), Plus(Ws), Lit(<<"o", "f">>), Plus(Ws), Lit(last)>>

(* line 346 *)
pattern1 ==
  <<Open(1),
    Group(<<Masters, Bachelors, BTech, MTech, <<Lit(<<"M", "B", "A">>)>>,
            <<Lit(<<"M">>), Maybe(Dot), Lit(<<"S">>), Maybe(Dot)>>,
            <<Lit(<<"B">>), Maybe(Dot), Lit(<<"S">>), Maybe(Dot)>> >>),
    Close(1),
    Plus(Ws),
    Optional(<<Lit(<<"o", "f">>), Plus(Ws), Plus(Letters), Plus(Ws)>>),
    Lit(<<"i", "n">>), Plus(Ws),
    Open(2), NotLazyPlus({"|"}), Close(2),
    Star(Ws), Lit(<<"|">>), Star(Ws),
    Open(3), NotLazyPlus({"|", ",", "\n"}),
    Group(<< <<Lit(<<"U", "n", "i", "v", "e", "r", "s", "i", "t", "y">>)>>, <<Lit(<<"C", "o", "l", "l", "e", "g", "e">>)>>, <<Lit(<<"I", "n", "s", "t", "i", "t", "u", "t", "e">>)>>,
             <<Lit(<<"S", "c", "h", "o", "o", "l">>)>>, <<Lit(<<"T", "e", "c", "h">>)>> >>),
    Close(3)>>

(* line 368 *)
pattern2 ==
  <<Open(1), Group(<<Masters, Bachelors, BTech, MTech>>), Close(1),
    Plus(Ws), Group(<< <<Lit(<<"i", "n">>)>>, <<Lit(<<"o", "f">>)>> >>), Plus(Ws),
    Open(2), LazyPlus(Letters \cup Ws \cup {"&"}), Close(2),
    Plus(Ws),
    Open(3), One(Uppers), Plus(Letters \cup Ws \cup {"&", ".", "'", "-"}),
    Group(<< <<Lit(<<"U", "n", "i", "v", "e", "r", "s", "i", "t", "y">>)>>, <<Lit(<<"C", "o", "l", "l", "e", "g", "e">>)>>, <<Lit(<<"I", "n", "s", "t", "i", "t", "u", "t", "e">>)>> >>),
    Close(3),
    Plus(Ws),
    Open(4), One(Uppers), AtLeast(Lowers, 2), Plus(Ws), Times(Digits, 4), Close(4)>>

(* line 381 *)
pattern3 ==
  <<Open(1),
    Group(<<FullDegree(<<"B", "a", "c", "h", "e", "l", "o", "r">>, <<"T", "e", "c", "h", "n", "o", "l", "o", "g", "y">>), FullDegree(<<"B", "a", "c", "h", "e", "l", "o", "r">>, <<"E", "n", "g", "i", "n", "e", "e", "r", "i", "n", "g">>),
            FullDegree(<<"B", "a", "c", "h", "e", "l", "o", "r">>, <<"S", "c", "i", "e", "n", "c", "e">>), FullDegree(<<"M", "a", "s", "t", "e", "r">>, <<"S", "c", "i", "e", "n", "c", "e">>),
            FullDegree(<<"M", "a", "s", "t", "e", "r">>, <<"E", "n", "g", "i", "n", "e", "e", "r", "i", "n", "g">>)>>),
    Close(1),
    Plus(Ws), Lit(<<"i", "n">>), Plus(Ws),
    Open(2), NotLazyPlus({"|"}), Close(2),
    Star(Ws), Lit(<<"|">>), Star(Ws),
    Open(3), NotLazyPlus({"|", ",", "\n"}),
    Group(<< <<Lit(<<"U", "n", "i", "v", "e", "r", "s", "i", "t", "y">>)>>, <<Lit(<<"C", "o", "l", "l", "e", "g", "e">>)>>, <<Lit(<<"I", "n", "s", "t", "i", "t", "u", "t", "e">>)>> >>),
    Close(3)>>

(* line 404 *)
pattern4 ==
  <<Open(1), One(Uppers), Plus(Letters \cup Ws \cup {"&", ".", "'", "-"}),
    Group(<< <<Lit(<<"U", "n", "i", "v", "e", "r", "s", "i", "t", "y">>)>>, <<Lit(<<"C", "o", "l", "l", "e", "g", "e">>)>>, <<Lit(<<"I", "n", "s", "t", "i", "t", "u", "t", "e">>)>> >>),
    Close(1),
    Plus(Ws),
    Open(2),
    Group(<<Masters, Bachelors, FullDegree(<<"B", "a", "c", "h", "e", "l", "o", "r">>, <<"T", "e", "c", "h", "n", "o", "l", "o", "g", "y">>),
            FullDegree(<<"M", "a", "s", "t", "e", "r">>, <<"S", "c", "i", "e", "n", "c", "e">>)>>),
    Close(2),
    Plus(Ws), Optional(<<Lit(<<"i", "n">>), Plus(Ws)>>),
    Open(3), LazyPlus(Letters \cup Ws \cup {"&"}), Close(3),
    Group(<< <<Plus(Ws), One(Uppers), Plus(Lowers), Maybe({","}), Plus(Ws), Times(Uppers, 2)>>,
             <<Lit(<<"\n">>)>>,
             <<AtEnd>> >>)>>

(* lines 354 and 389: (20\d{2}|19\d{2})|([A-Z][a-z]+\s+20\d{2}) *)
year_pattern ==
  <<Group(<< <<Open(1),
               Group(<< <<Lit(<<"2", "0">>), Times(Digits, 2)>>, <<Lit(<<"1", "9">>), Times(Digits, 2)>> >>),
               Close(1)>>,
             <<Open(2), One(Uppers), Plus(Lowers), Plus(Ws), Lit(<<"2", "0">>), Times(Digits, 2),
               Close(2)>> >>)>>

(* lines 350-356 and 385-391: the year is looked for in the span characters *)
(* of the text that start where the institution is first found              *)
NearbyYear(text, institution, span) ==
  LET found == Occurrences(text, institution)
      inst_idx == First(found)
      context == SubSeq(text, inst_idx, Min(Len(text), inst_idx + span - 1))
      year_match == Search(year_pattern, context, FALSE)
  IN IF found = {} \/ year_match = <<>> THEN <<"U", "n", "k", "n", "o", "w", "n">>
     ELSE IF year_match[1][1] # <<>> THEN year_match[1][1] ELSE year_match[1][2]

Entry(degree, field, institution, year) ==
  [degree |-> Title(Strip(degree)), field |-> Title(Strip(field)),
   institution |-> Strip(institution), year |-> Strip(year)]

(* lines 347-363 *)
Education1(text) ==
  LET matches1 == FindAll(pattern1, text, TRUE)
  IN [k \in 1..Len(matches1) |->
        Entry(matches1[k][1], matches1[k][2], matches1[k][3],
              NearbyYear(text, matches1[k][3], 150))]

(* lines 369-377 *)
Education2(text) ==
  LET matches2 == FindAll(pattern2, text, FALSE)
  IN [k \in 1..Len(matches2) |->
        Entry(matches2[k][1], matches2[k][2], matches2[k][3], matches2[k][4])]

(* lines 382-398 *)
Education3(text) ==
  LET matches3 == FindAll(pattern3, text, TRUE)
  IN [k \in 1..Len(matches3) |->
        Entry(matches3[k][1], matches3[k][2], matches3[k][3],
              NearbyYear(text, matches3[k][3], 100))]

(* lines 405-413 *)
Education4(text) ==
  LET matches4 == FindAll(pattern4, text, TRUE)
  IN [k \in 1..Len(matches4) |->
        [degree |-> Title(Strip(matches4[k][2])), field |-> Title(Strip(matches4[k][3])),
         institution |-> Strip(matches4[k][1]), year |-> <<"U", "n", "k", "n", "o", "w", "n">>]]

(* lines 421-423 *)
CleanEducation(edu) ==
  [edu EXCEPT
     !.field = Strip(CollapseWhitespace(@)),
     !.institution = Strip(StripTrailing(Strip(CollapseWhitespace(@)), {",", "|"}))]

(* line 430 *)
false_positives == {<<"h", "y", "d", "e", "r", "a", "b", "a", "d">>, <<"i", "n", "d", "i", "a">>, <<"c", "h", "i", "c", "a", "g", "o">>, <<"n", "e", "w", "a", "r", "k">>, <<"b", "o", "s", "t", "o", "n">>}

(* lines 425-431: the entry is skipped *)
SkippedEducation(edu) ==
  \/ Len(edu.field) < 3
  \/ \E word \in false_positives : IsSubstring(word, Lower(edu.field))

(* line 434 *)
EducationKey(edu) ==
  <<Lower(edu.degree), Prefix(Lower(edu.field), 20), Prefix(Lower(edu.institution), 30)>>

(* lines 416-437: the loop over the pooled entries *)
RECURSIVE UniqueEducation(_, _, _, _)
UniqueEducation(education, i, seen, unique_education) ==
  IF i > Len(education) THEN unique_education
  ELSE LET edu == CleanEducation(education[i])
           key == EducationKey(edu)
       IN IF SkippedEducation(edu) \/ key \in seen
          THEN UniqueEducation(education, i + 1, seen, unique_education)
          ELSE UniqueEducation(education, i + 1, seen \cup {key},
                               Append(unique_education, edu))

(* a call _extract_education(text, doc) *)
ExtractEducation(text) ==
  /\ pc = "idle"
  /\ request' = text
  /\ response' = UniqueEducation(Education1(text) \o Education2(text) \o Education3(text)
                                   \o Education4(text), 1, {}, <<>>)
  /\ pc' = "returned"
  /\ UNCHANGED <<synonyms, reverse_map, all_skills>>
  /\ UNCHANGED scorer_vars
  /\ UNCHANGED api_vars

(* Education inputs: texts that describe one education, in one of the layouts *)
(* of the templates or in two of them on two lines                            *)
DegreeNames ==
  {<<"B", "a", "c", "h", "e", "l", "o", "r", " ", "o", "f", " ", "S", "c", "i", "e", "n", "c", "e">>, <<"M", "a", "s", "t", "e", "r", " ", "o", "f", " ", "S", "c", "i", "e", "n", "c", "e">>, <<"B", "a", "c", "h", "e", "l", "o", "r", " ", "o", "f", " ", "T", "e", "c", "h", "n", "o", "l", "o", "g", "y">>,
   <<"M", "a", "s", "t", "e", "r", "'", "s">>, <<"B", ".", "T", "e", "c", "h">>}
FieldNames == {<<"P", "h", "y", "s", "i", "c", "s">>, <<"D", "a", "t", "a", " ", "S", "c", "i", "e", "n", "c", "e">>}
InstitutionNames == {<<"R", "i", "c", "e", " ", "U", "n", "i", "v", "e", "r", "s", "i", "t", "y">>, <<"R", "e", "e", "d", " ", "C", "o", "l", "l", "e", "g", "e">>}

PipeLine(d, f, i)  == d \o <<" ", "i", "n", " ">> \o f \o <<" ", "|", " ">> \o i \o <<" ", "2", "0", "1", "5">>
PlainLine(d, f, i) == d \o <<" ", "i", "n", " ">> \o f \o <<" ">> \o i \o <<" ", "M", "a", "y", " ", "2", "0", "1", "5">>
InstitutionFirst(d, f, i) == i \o <<" ">> \o d \o <<" ", "i", "n", " ">> \o f

(* the institution-first layout with the year on the next line *)
YearBelow(d, i) == InstitutionFirst(d, <<"P", "h", "y", "s", "i", "c", "s">>, i) \o <<"\n", "2", "0", "1", "5">>
(* the pipe layout with the year gap characters and two blanks after the *)
(* institution                                                           *)
YearAfter(d, gap) ==
  d \o <<" ", "i", "n", " ">> \o <<"P", "h", "y", "s", "i", "c", "s">> \o <<" ", "|", " ">> \o <<"R", "i", "c", "e", " ", "U", "n", "i", "v", "e", "r", "s", "i", "t", "y">> \o <<" ">>
    \o Repeat(<<",">>, gap) \o <<" ", "2", "0", "1", "5">>

EducationTexts ==
  UNION {{PipeLine(d, f, i), PlainLine(d, f, i), InstitutionFirst(d, f, i),
          PipeLine(d, f, i) \o <<"\n">> \o InstitutionFirst(d, f, i),
          PlainLine(d, f, i) \o <<"\n">> \o InstitutionFirst(d, f, i),
          PipeLine(d, f, i) \o <<"\n">> \o PlainLine(d, f, i)} :
           d \in DegreeNames, f \in FieldNames, i \in InstitutionNames}
  \cup {YearBelow(d, i) : d \in DegreeNames, i \in InstitutionNames}
  \cup {YearAfter(d, gap) : d \in DegreeNames, gap \in {90, 140}}

InitEducation ==
  /\ synonyms = <<>>
  /\ reverse_map = <<>>
  /\ all_skills = <<>>
  /\ request = <<>>
  /\ response = <<>>
  /\ pc = "idle"
  /\ NoScorer
  /\ ApiIdle

NextEducation ==
  \/ \E text \in EducationTexts : ExtractEducation(text)
  \/ Release

SpecEducation == InitEducation /\ [][NextEducation]_vars


-----------------------------------------------------------------------------
(* Properties of the education extractor. Every text of EducationTexts *)
(* describes one education: one degree, field and institution          *)

(* the entries template k produces on the text *)
HitsOf(k, text) ==
  CASE k = 1 -> Education1(text)
    [] k = 2 -> Education2(text)
    [] k = 3 -> Education3(text)
    [] k = 4 -> Education4(text)

TemplatesHitting(text) == {k \in 1..4 : HitsOf(k, text) # <<>>}

(* C20: when two different templates each produce a hit that describes the  *)
(* same education, also when both match the same span of the text, exactly  *)
(* one entry for it is in the result.                                       *)
C20_OneEntryPerEducation ==
  Extracted =>
    (Cardinality(TemplatesHitting(request)) >= 2 => Len(response) = 1)


(* what the extractor writes when it finds no year *)
Unknown == <<"U", "n", "k", "n", "o", "w", "n">>

(* the year tokens the texts hold *)
YearTokens == {<<"2", "0", "1", "5">>, <<"M", "a", "y", " ", "2", "0", "1", "5">>}

(* the 150 characters of the text from the place where the institution is *)
(* located                                                                *)
AfterInstitution(text, institution) ==
  LET at == First(Occurrences(text, institution))
  IN SubSeq(text, at, Min(Len(text), at + 149))

TokensNear(text, institution) ==
  {y \in YearTokens : IsSubstring(y, AfterInstitution(text, institution))}

(* C21: every emitted education entry, whichever template produced it, has  *)
(* as its year a year token that occurs within the 150 characters following *)
(* the located institution when there is one there; the year is "Unknown"   *)
(* only if no such token occurs within those 150 characters.                *)
C21_YearFromNearbyText ==
  Extracted =>
    \A k \in 1..Len(response) :
      LET near == TokensNear(request, response[k].institution)
      IN /\ near # {} => response[k].year \in near
         /\ response[k].year = Unknown => near = {}

-----------------------------------------------------------------------------
(* ResumeParser.parse_resume, resume_parser.py lines 49-73 *)

(* the dictionary parse_resume returns: the templates of _extract_experience *)
(* find the hits of experiences in the text, in this order                   *)
ParsedData(catalog, text, experiences) ==
  [skills |-> [technical |-> SortSkills(FoundSkills(catalog, text, 1))],
   experience |-> PostProcess(experiences),
   education |-> UniqueEducation(Education1(text) \o Education2(text) \o Education3(text)
                                   \o Education4(text), 1, {}, <<>>)]

(* a call parse_resume(text) *)
ParseResume(text, experiences) ==
  /\ pc = "idle"
  /\ request' = text
  /\ response' = ParsedData(all_skills, text, experiences)
  /\ pc' = "returned"
  /\ UNCHANGED <<synonyms, reverse_map, all_skills>>
  /\ UNCHANGED scorer_vars
  /\ UNCHANGED api_vars

-----------------------------------------------------------------------------
(* Start-up: main.py line 8 imports the routers, and each router constructs *)
(* its component when it is imported (resume.py line 22, roles.py line 23)  *)

(* what the reference files hold when they are in place *)
TaxonomySkills == {Python, Java}
SynonymsFile   == <<[canonical |-> Python, synonyms_list |-> <<py>>]>>
RolesFile      ==
  <<[title |-> "Data Engineer",
     required_skills |-> <<[skill |-> Python, level |-> 3 * Scale, numeric |-> TRUE]>>],
    [title |-> "Backend Developer",
     required_skills |-> <<[skill |-> Java, level |-> 4 * Scale, numeric |-> TRUE]>>]>>

(* open() and json.load() raise unless the file is there and well-formed *)
Readable(f) == files[f] = "present"

(* _load_skills_taxonomy, lines 27-33: a file that is not there gives {},   *)
(* and _flatten_skills, lines 35-47, turns it into a list in some order     *)
LoadedCatalogs ==
  IF files["skills_taxonomy.json"] = "missing" THEN {<<>>}
  ELSE Orderings(TaxonomySkills)

(* import of routers/resume.py: ResumeParser() calls get_normalizer(), which *)
(* constructs the SkillNormalizer, and then loads the taxonomy; an exception *)
(* of either ends the import                                                 *)
ImportResumeRouter ==
  /\ services["resume_parser"] = "unbuilt"
  /\ IF ~Readable("skill_synonyms.json")
     THEN /\ services' = [services EXCEPT !["skill_normalizer"] = "failed",
                                          !["resume_parser"] = "failed"]
          /\ UNCHANGED <<synonyms, reverse_map, all_skills, normalizer_instance, instances>>
     ELSE /\ synonyms' = SynonymsFile
          /\ reverse_map' = BuildReverseMap(SynonymsFile, 1, <<>>)
          /\ instances' = instances + 1
          /\ normalizer_instance' = instances + 1
          /\ IF files["skills_taxonomy.json"] = "unreadable"
             THEN /\ services' = [services EXCEPT !["skill_normalizer"] = "ready",
                                                  !["resume_parser"] = "failed"]
                  /\ UNCHANGED all_skills
             ELSE /\ services' = [services EXCEPT !["skill_normalizer"] = "ready",
                                                  !["resume_parser"] = "ready"]
                  /\ all_skills' \in LoadedCatalogs
  /\ UNCHANGED <<request, response, pc, files, callers, db>>
  /\ UNCHANGED scorer_vars

(* import of routers/roles.py, after routers/resume.py: MLRoleAnalyzer()  *)
(* loads the role dataset, lines 33-38                                    *)
ImportRolesRouter ==
  /\ services["resume_parser"] = "ready"
  /\ services["ml_analyzer"] = "unbuilt"
  /\ IF Readable("roles_dataset.json")
     THEN /\ roles' = RolesFile
          /\ services' = [services EXCEPT !["ml_analyzer"] = "ready"]
     ELSE /\ services' = [services EXCEPT !["ml_analyzer"] = "failed"]
          /\ UNCHANGED roles
  /\ UNCHANGED <<parsed_resume, predictions, pc, files, db>>
  /\ UNCHANGED parser_vars
  /\ UNCHANGED singleton_vars

(* the application serves requests once every router is imported *)
Serving == \A c \in ServiceNames : services[c] = "ready"

StartupTexts ==
  {<<"E", "x", "p", "e", "r", "t", " ", "i", "n", " ", "P", "y", "t", "h", "o", "n">>, <<"b", "a", "s", "i", "c", " ", "J", "a", "v", "a", ",", " ", "P", "y", "t", "h", "o", "n">>, <<"B", ".", "T", "e", "c", "h", " ", "i", "n", " ", "P", "h", "y", "s", "i", "c", "s", " ", "|", " ", "R", "e", "e", "d", " ", "C", "o", "l", "l", "e", "g", "e", " ", "2", "0", "1", "5">>,
   <<"J", "a", "v", "a">>}
StartupHits == {<<>>, <<Job(1)>>}
StartupResumes ==
  Resumes(TechnicalLists(<<Python, Java>>, {2 * Scale, 4 * Scale}, MaxProfile))

InitStartup ==
  /\ files \in [FileNames -> {"present", "missing", "unreadable"}]
  /\ services = [c \in ServiceNames |-> "unbuilt"]
  /\ normalizer_instance = 0
  /\ instances = 0
  /\ callers = [t \in Threads |-> IdleCaller]
  /\ db = EmptyDb
  /\ ParserIdle
  /\ NoScorer
  /\ pc = "idle"

(* a request reaches resume_parser or ml_analyzer, and its caller takes the *)
(* result                                                                  *)
ServeParse ==
  /\ Serving
  /\ \E text \in StartupTexts, hits \in StartupHits : ParseResume(text, hits)
ServeScore ==
  /\ Serving
  /\ \E resume \in StartupResumes : PredictRoles(resume)
TakeParsed == request # <<>> /\ Release
TakeScored == request = <<>> /\ Discard

NextStartup ==
  \/ ImportResumeRouter
  \/ ImportRolesRouter
  \/ ServeParse
  \/ ServeScore
  \/ TakeParsed
  \/ TakeScored

SpecStartup == InitStartup /\ [][NextStartup]_vars

-----------------------------------------------------------------------------
(* Properties of start-up *)

(* a parse request, and a scoring request, has been served *)
ParseServed == pc = "returned" /\ request # <<>>
ScoreServed == pc = "returned" /\ parsed_resume # NoResume

(* C22: a component is constructed only when its reference file is in place *)
(* (the taxonomy for ResumeParser, the synonyms for SkillNormalizer, the     *)
(* role dataset for MLRoleAnalyzer), and no parse or score request is served *)
(* with an empty or default table in place of a missing or unreadable file.  *)
C22_FatalWithoutTables ==
  /\ services["resume_parser"] = "ready" => Readable("skills_taxonomy.json")
  /\ services["skill_normalizer"] = "ready" => Readable("skill_synonyms.json")
  /\ services["ml_analyzer"] = "ready" => Readable("roles_dataset.json")
  /\ ParseServed => Readable("skills_taxonomy.json") /\ all_skills # <<>>
  /\ ScoreServed => Readable("roles_dataset.json") /\ roles # <<>>

-----------------------------------------------------------------------------
(* get_normalizer, skill_normalizer.py lines 83-92, called from several *)
(* threads; a thread can be suspended between any two of its steps      *)

At(t, where) == callers[t].pc = where
Goto(t, where) == callers' = [callers EXCEPT ![t].pc = where]

(* a thread calls get_normalizer() *)
EnterGetNormalizer(t) ==
  /\ At(t, "idle")
  /\ callers' = [callers EXCEPT ![t] = [pc |-> "test", new |-> 0, result |-> 0]]
  /\ UNCHANGED <<normalizer_instance, instances, files, services, db, pc>>
  /\ UNCHANGED parser_vars
  /\ UNCHANGED scorer_vars

(* line 90: if _normalizer_instance is None *)
TestInstance(t) ==
  /\ At(t, "test")
  /\ Goto(t, IF normalizer_instance = 0 THEN "construct" ELSE "return")
  /\ UNCHANGED <<normalizer_instance, instances, files, services, db, pc>>
  /\ UNCHANGED parser_vars
  /\ UNCHANGED scorer_vars

(* line 91, right-hand side: SkillNormalizer() reads the synonym file and *)
(* builds the reverse map of the new object                               *)
ConstructNormalizer(t) ==
  /\ At(t, "construct")
  /\ instances' = instances + 1
  /\ callers' = [callers EXCEPT ![t].pc = "assign", ![t].new = instances + 1]
  /\ synonyms' = SynonymsFile
  /\ reverse_map' = BuildReverseMap(SynonymsFile, 1, <<>>)
  /\ UNCHANGED <<normalizer_instance, files, services, db, pc>>
  /\ UNCHANGED <<all_skills, request, response>>
  /\ UNCHANGED scorer_vars

(* line 91, the assignment to the global *)
AssignInstance(t) ==
  /\ At(t, "assign")
  /\ normalizer_instance' = callers[t].new
  /\ Goto(t, "return")
  /\ UNCHANGED <<instances, files, services, db, pc>>
  /\ UNCHANGED parser_vars
  /\ UNCHANGED scorer_vars

(* line 92: return _normalizer_instance *)
ReturnInstance(t) ==
  /\ At(t, "return")
  /\ callers' = [callers EXCEPT ![t].pc = "done", ![t].result = normalizer_instance]
  /\ UNCHANGED <<normalizer_instance, instances, files, services, db, pc>>
  /\ UNCHANGED parser_vars
  /\ UNCHANGED scorer_vars

(* the process before the first call of get_normalizer *)
InitSingleton ==
  /\ files = [f \in FileNames |-> "present"]
  /\ services = [c \in ServiceNames |-> "unbuilt"]
  /\ normalizer_instance = 0
  /\ instances = 0
  /\ callers = [t \in Threads |-> IdleCaller]
  /\ db = EmptyDb
  /\ ParserIdle
  /\ NoScorer
  /\ pc = "idle"

NextSingleton ==
  \E t \in Threads :
    \/ EnterGetNormalizer(t)
    \/ TestInstance(t)
    \/ ConstructNormalizer(t)
    \/ AssignInstance(t)
    \/ ReturnInstance(t)

SpecSingleton == InitSingleton /\ [][NextSingleton]_vars

-----------------------------------------------------------------------------
(* Properties of the normalizer singleton *)

(* C23: under any interleaving of get_normalizer calls from several threads, *)
(* first calls racing included, at most one SkillNormalizer is constructed   *)
(* and every call returns that same instance.                                *)
C23_LoadedOnce ==
  /\ instances <= 1
  /\ \A t, u \in Threads :
       At(t, "done") /\ At(u, "done") => callers[t].result = callers[u].result

-----------------------------------------------------------------------------
(* The two services in use: parse_resume and predict_roles called one after *)
(* the other, in any order, on loaded tables                                *)

DevOpsRole ==
  [title |-> "DevOps/Cloud Engineer",
   required_skills |-> <<[skill |-> Docker, level |-> 2 * Scale, numeric |-> TRUE]>>]

(* the role dataset, in any order of two or three of its roles *)
ServiceCatalogs ==
  LET all == {RolesFile[1], RolesFile[2], DevOpsRole}
  IN UNION {Orderings(S) : S \in {T \in SUBSET all : Cardinality(T) >= 2}}

InitService ==
  /\ roles \in ServiceCatalogs
  /\ parsed_resume = NoResume
  /\ predictions = <<>>
  /\ synonyms = SynonymsFile
  /\ reverse_map = BuildReverseMap(SynonymsFile, 1, <<>>)
  /\ all_skills \in Orderings(TaxonomySkills)
  /\ request = <<>>
  /\ response = <<>>
  /\ pc = "idle"
  /\ ApiIdle

NextService ==
  \/ ServeParse
  \/ ServeScore
  \/ TakeParsed
  \/ TakeScored

SpecService == InitService /\ [][NextService]_vars

-----------------------------------------------------------------------------
(* Frame of the services *)

(* the tables every call reads *)
tables == <<all_skills, synonyms, reverse_map, roles>>

(* the predictions of the profile on the catalog, computed afresh *)
FreshPredictions(resume, catalog) ==
  SortByPercentage([i \in 1..Len(catalog) |->
    Prediction(catalog[i], CalculateRoleScore(UserSkills(resume), catalog[i].required_skills))])

-----------------------------------------------------------------------------
(* routers/roles.py: _analyze_skills *)

(* lines 188: user_skills.get(skill_name, 0), a lookup by the exact key *)
GetLevel(user_skills, skill_name) ==
  LET at == {k \in 1..Len(user_skills) : user_skills[k][1] = skill_name}
  IN IF at = {} THEN 0 ELSE user_skills[First(at)][2]

SkillMatch(skill, user_level, required_level, status) ==
  [skill |-> skill, user_level |-> user_level,
   required_level |-> required_level, status |-> status]

SkillGap(skill, required_level, current_level, gap_size, priority) ==
  [skill |-> skill, required_level |-> required_level, current_level |-> current_level,
   gap_size |-> gap_size, priority |-> priority]

(* line 237: the key (priority == "high", gap_size) *)
GapKeyLeq(a, b) ==
  LET ha == IF a.priority = "high" THEN 1 ELSE 0
      hb == IF b.priority = "high" THEN 1 ELSE 0
  IN ha < hb \/ (ha = hb /\ a.gap_size <= b.gap_size)

InsertGapAsc(sorted, x) ==
  LET after == {k \in 1..Len(sorted) : GapKeyLeq(sorted[k], x)}
      n == IF after = {} THEN 0 ELSE CHOOSE k \in after : \A j \in after : j <= k
  IN SubSeq(sorted, 1, n) \o <<x>> \o SubSeq(sorted, n + 1, Len(sorted))

RECURSIVE SortGapsAsc(_)
SortGapsAsc(s) ==
  IF s = <<>> THEN <<>>
  ELSE InsertGapAsc(SortGapsAsc(SubSeq(s, 1, Len(s) - 1)), s[Len(s)])

SortGaps(s) == Reverse(SortGapsAsc(Reverse(s)))

EmptyAnalysis ==
  [matched_skills |-> <<>>, weak_skills |-> <<>>, missing_skills |-> <<>>, skill_gaps |-> <<>>]

(* lines 190-227: one required skill *)
AnalyzeOne(acc, skill_name, required_level, user_level) ==
  IF user_level >= required_level
  THEN [acc EXCEPT !.matched_skills =
          Append(@, SkillMatch(skill_name, user_level, required_level, "strong"))]
  ELSE IF user_level > 0
  THEN [acc EXCEPT
          !.weak_skills = Append(@, SkillMatch(skill_name, user_level, required_level, "weak")),
          !.skill_gaps = Append(@, SkillGap(skill_name, required_level, user_level,
                                            required_level - user_level, "medium"))]
  ELSE [acc EXCEPT
          !.missing_skills = Append(@, SkillMatch(skill_name, 0, required_level, "missing")),
          !.skill_gaps = Append(@, SkillGap(skill_name, required_level, 0, required_level,
                                            IF required_level >= 4 * Scale
                                            THEN "high" ELSE "medium"))]

RECURSIVE AnalyzeLoop(_, _, _, _)
AnalyzeLoop(user_skills, required_skills, i, acc) ==
  IF i > Len(required_skills) THEN acc
  ELSE AnalyzeLoop(user_skills, required_skills, i + 1,
                   AnalyzeOne(acc, required_skills[i].skill, required_skills[i].level,
                              GetLevel(user_skills, required_skills[i].skill)))

AnalyzeSkills(parsed_data, required_skills) ==
  LET acc == AnalyzeLoop(UserSkills(parsed_data), required_skills, 1, EmptyAnalysis)
  IN [skill_match_details |->
        [matched_skills |-> acc.matched_skills, weak_skills |-> acc.weak_skills,
         missing_skills |-> acc.missing_skills],
      skill_gaps |-> SortGaps(acc.skill_gaps)]

(* C25: the matched / weak / missing classification of _analyze_skills, shown *)
(* in a recommendation, is the classification _calculate_role_score used for  *)
(* the percentage of that recommendation: every required skill is in the same *)
(* class in both, also when names differ by case or match through a group.    *)
C25_DetailsAgreeWithScore ==
  (Returned /\ WellFormed(roles[1])) =>
    LET details == AnalyzeSkills(parsed_resume, roles[1].required_skills).skill_match_details
    IN /\ SkillsOf(details.matched_skills) = SkillsOf(predictions[1].matched)
       /\ SkillsOf(details.weak_skills) = SkillsOf(predictions[1].weak)
       /\ SkillsOf(details.missing_skills) = SkillsOf(predictions[1].missing)

-----------------------------------------------------------------------------
(* routers/resume.py and routers/roles.py: the endpoints.                    *)
(* upload_resume is a coroutine: it runs on the event loop, one call at a    *)
(* time from its first commit to its return, and pc.upload is its position.  *)
(* get_parsed_resume and get_role_recommendations are plain functions that   *)
(* run in a worker thread beside it, each on a session that sees what has    *)
(* been committed; pc.read is the position of the worker. request and        *)
(* response hold, for each of the two, the call and what it gave.            *)

MaxResumes == 1
MaxSaved   == 2

(* current_user: None, or the User row of the token *)
NoUser   == <<>>
User(n)  == [id |-> n]
UserIds  == {1, 2}
Callers  == {NoUser} \cup {User(n) : n \in UserIds}
(* the callers that upload: one registered user stands for each of them *)
Uploaders == {NoUser, User(1)}

ALLOWED_EXTENSIONS == {<<".", "p", "d", "f">>, <<".", "d", "o", "c", "x">>, <<".", "t", "x", "t">>}
MAX_FILE_SIZE == 10 * 1024 * 1024

(* os.path.splitext(name)[1]: from the last dot, unless only dots precede it *)
SplitExt(name) ==
  LET dots == {k \in 1..Len(name) : name[k] = "."}
      last == CHOOSE k \in dots : \A j \in dots : j <= k
  IN IF dots = {} THEN <<>>
     ELSE IF \A j \in 1..(last - 1) : name[j] = "." THEN <<>>
     ELSE SubSeq(name, last, Len(name))

(* uploaded files: the name, the number of bytes, whether the bytes can be *)
(* read as a document of their type, the text they hold and the jobs the   *)
(* experience templates find in that text                                  *)
UploadFiles ==
  {[filename |-> <<"C", "V", ".", "T", "X", "T">>, size |-> 16, readable |-> TRUE,
    text |-> <<"E", "x", "p", "e", "r", "t", " ", "i", "n", " ", "P", "y", "t", "h", "o", "n">>, experiences |-> <<Job(1)>>],
   [filename |-> <<"c", "v", ".", "p", "d", "f">>, size |-> MAX_FILE_SIZE, readable |-> FALSE,
    text |-> <<>>, experiences |-> <<>>],
   [filename |-> <<"c", "v", ".", "e", "x", "e">>, size |-> 900, readable |-> TRUE,
    text |-> <<"J", "a", "v", "a">>, experiences |-> <<>>],
   [filename |-> <<"b", "i", "g", ".", "d", "o", "c", "x">>, size |-> MAX_FILE_SIZE + 1, readable |-> TRUE,
    text |-> <<"J", "a", "v", "a">>, experiences |-> <<>>]}

(* FileProcessor.extract_text *)
ExtractText(file, file_type) ==
  IF file_type \in ALLOWED_EXTENSIONS /\ file.readable
  THEN [raised |-> FALSE, text |-> file.text]
  ELSE [raised |-> TRUE, text |-> <<>>]

Idle2 == [upload |-> "idle", read |-> "idle"]
None2 == [upload |-> <<>>, read |-> <<>>]

HTTPException(status_code) == [status_code |-> status_code]

(* db.query(Resume).filter(Resume.id == resume_id).first() *)
FindResume(resume_id) ==
  IF resume_id \in 1..Len(db.resumes) THEN <<db.resumes[resume_id]>> ELSE <<>>

(* lines 109-118 of resume.py: one UserSkill row per technical skill *)
UserSkillRows(user_id, technical) ==
  [i \in 1..Len(technical) |->
     [user_id |-> user_id, skill_name |-> technical[i].name,
      proficiency_score |-> technical[i].proficiency_score,
      confidence_score |-> technical[i].confidence, extracted_from |-> "resume"]]

(* upload_resume, lines 47-94: the checks, the file saved, the row committed *)
UploadBegin(current_user, file) ==
  LET file_ext == Lower(SplitExt(file.filename))
      user_id  == IF current_user # NoUser THEN current_user.id ELSE 0
  IN /\ pc.upload = "idle"
     /\ request' = [request EXCEPT !.upload = [current_user |-> current_user]]
     /\ IF file_ext \notin ALLOWED_EXTENSIONS \/ file.size > MAX_FILE_SIZE
        THEN /\ pc' = [pc EXCEPT !.upload = "raised"]
             /\ response' = [response EXCEPT !.upload = HTTPException(400)]
             /\ UNCHANGED db
        ELSE /\ Len(db.resumes) < MaxResumes
             /\ pc' = [pc EXCEPT !.upload = "processing"]
             /\ db' = [db EXCEPT !.resumes =
                         Append(@, [id |-> Len(db.resumes) + 1, user_id |-> user_id,
                                    file_name |-> file.filename, file_path |-> file,
                                    file_size |-> file.size, file_type |-> file_ext,
                                    raw_text |-> <<>>, processed_data |-> <<>>,
                                    processing_status |-> "processing"])]
             /\ UNCHANGED response
     /\ UNCHANGED <<synonyms, reverse_map, all_skills>>
     /\ UNCHANGED scorer_vars
     /\ UNCHANGED <<files, services, normalizer_instance, instances, callers>>

(* mutant: the try block without its except clause: a document that cannot *)
(* be read leaves the row as it was                                       *)
ProcessWithoutExcept(resume) ==
  LET extracted == ExtractText(resume.file_path, resume.file_type)
  IN IF extracted.raised
     THEN resume
     ELSE [resume EXCEPT
             !.raw_text = extracted.text,
             !.processed_data = ParsedData(all_skills, extracted.text,
                                           resume.file_path.experiences),
             !.processing_status = "completed"]

(* upload_resume, lines 96-122: the try block, on the row and the saved file *)
Process(resume) ==
  LET extracted == ExtractText(resume.file_path, resume.file_type)
  IN IF extracted.raised
     THEN [resume EXCEPT !.processing_status = "failed"]
     ELSE [resume EXCEPT
             !.raw_text = extracted.text,
             !.processed_data = ParsedData(all_skills, extracted.text,
                                           resume.file_path.experiences),
             !.processing_status = "completed"]

(* upload_resume, lines 96-131: the try block, the second commit, the return *)
UploadFinish ==
  /\ pc.upload = "processing"
  /\ \E stored \in {Process(db.resumes[Len(db.resumes)])} :
       /\ db' = [db EXCEPT
                   !.resumes[stored.id] = stored,
                   !.user_skills =
                      IF stored.processing_status = "completed"
                           /\ request.upload.current_user # NoUser
                      THEN @ \o UserSkillRows(stored.user_id,
                                              stored.processed_data.skills.technical)
                      ELSE @]
       /\ response' = [response EXCEPT !.upload =
                         [status_code |-> 200, resume_id |-> stored.id,
                          processing_status |-> stored.processing_status]]
  /\ pc' = [pc EXCEPT !.upload = "returned"]
  /\ UNCHANGED request
  /\ UNCHANGED <<synonyms, reverse_map, all_skills>>
  /\ UNCHANGED scorer_vars
  /\ UNCHANGED <<files, services, normalizer_instance, instances, callers>>

(* the client has the answer to its upload *)
TakeUpload ==
  /\ pc.upload \in {"returned", "raised"}
  /\ pc' = [pc EXCEPT !.upload = "idle"]
  /\ request' = [request EXCEPT !.upload = <<>>]
  /\ response' = [response EXCEPT !.upload = <<>>]
  /\ UNCHANGED <<synonyms, reverse_map, all_skills>>
  /\ UNCHANGED scorer_vars
  /\ UNCHANGED api_vars

(* what a worker leaves when its handler ends *)
Answer(call, outcome) ==
  /\ request' = [request EXCEPT !.read = call]
  /\ response' = [response EXCEPT !.read = outcome]
  /\ pc' = [pc EXCEPT !.read = IF outcome.status_code = 200 THEN "returned" ELSE "raised"]

(* the test of resume.py line 158 and roles.py line 70 *)
NotAuthorized(current_user, resume) ==
  current_user # NoUser /\ resume.user_id # 0 /\ resume.user_id # current_user.id

(* get_parsed_resume, lines 134-180 *)
GetParsedResume(current_user, resume_id) ==
  LET found == FindResume(resume_id)
      call  == [endpoint |-> "parsed", current_user |-> current_user, resume_id |-> resume_id]
  IN /\ pc.read = "idle"
     /\ IF found = <<>> THEN Answer(call, HTTPException(404))
        ELSE IF NotAuthorized(current_user, found[1]) THEN Answer(call, HTTPException(403))
        ELSE IF found[1].processing_status # "completed" THEN Answer(call, HTTPException(202))
        ELSE Answer(call, [status_code |-> 200, id |-> found[1].id,
                           file_name |-> found[1].file_name,
                           processing_status |-> found[1].processing_status,
                           extracted_data |-> found[1].processed_data])
     /\ UNCHANGED <<synonyms, reverse_map, all_skills>>
     /\ UNCHANGED scorer_vars
     /\ UNCHANGED api_vars

(* the job_roles table, seeded by scripts/seed_job_roles.py with the roles *)
(* of the dataset                                                         *)
JobRoles ==
  [i \in 1..Len(RolesFile) |->
     [id |-> i, title |-> RolesFile[i].title, required_skills |-> RolesFile[i].required_skills]]

(* all_roles.get(role_name) *)
GetRole(role_name) ==
  LET at == {i \in 1..Len(JobRoles) : JobRoles[i].title = role_name}
  IN IF at = {} THEN <<>> ELSE <<JobRoles[First(at)]>>

(* _generate_match_explanation, lines 157-166 *)
GenerateMatchExplanation(percentage) ==
  IF FracLeq(Frac(80, 1), percentage) THEN "Excellent match!"
  ELSE IF FracLeq(Frac(60, 1), percentage) THEN "Good match!"
  ELSE IF FracLeq(Frac(40, 1), percentage) THEN "Moderate match."
  ELSE "Limited match."

(* the profile of a stored resume, as predict_roles and _analyze_skills read it *)
Profile(parsed_data) == [has_technical |-> TRUE, technical |-> parsed_data.skills.technical]

(* lines 89-139: the loop over ml_predictions[:limit] *)
RECURSIVE Recommend(_, _, _)
Recommend(parsed_data, ml_predictions, i) ==
  IF i > Len(ml_predictions) THEN <<>>
  ELSE LET pred == ml_predictions[i]
           role == GetRole(pred.role)
       IN IF role = <<>> THEN Recommend(parsed_data, ml_predictions, i + 1)
          ELSE LET analysis == AnalyzeSkills(Profile(parsed_data), role[1].required_skills)
               IN <<[role |-> role[1],
                     suitability_percentage |-> pred.percentage,
                     match_explanation |-> GenerateMatchExplanation(pred.percentage),
                     skill_match_details |-> analysis.skill_match_details,
                     skill_gaps |-> analysis.skill_gaps]>>
                    \o Recommend(parsed_data, ml_predictions, i + 1)

(* lines 128-136: the Recommendation rows of the recommendations *)
RecommendationRows(resume, recommendations) ==
  [i \in 1..Len(recommendations) |->
     [user_id |-> resume.user_id, resume_id |-> resume.id,
      role_id |-> recommendations[i].role.id,
      suitability_score |-> recommendations[i].suitability_percentage,
      match_explanation |-> recommendations[i].match_explanation,
      skill_gaps |-> recommendations[i].skill_gaps]]

(* get_role_recommendations, lines 37-154 *)
GetRoleRecommendations(current_user, resume_id, limit) ==
  LET found == FindResume(resume_id)
      call  == [endpoint |-> "recommendations", current_user |-> current_user,
                resume_id |-> resume_id]
  IN /\ pc.read = "idle"
     /\ IF found = <<>>
        THEN Answer(call, HTTPException(404)) /\ UNCHANGED db
        ELSE IF found[1].processing_status # "completed"
        THEN Answer(call, HTTPException(400)) /\ UNCHANGED db
        ELSE IF NotAuthorized(current_user, found[1])
        THEN Answer(call, HTTPException(403)) /\ UNCHANGED db
        ELSE LET resume == found[1]
                 parsed_data == resume.processed_data
                 ml_predictions == FreshPredictions(Profile(parsed_data), roles)
                 recommendations == Recommend(parsed_data, Prefix(ml_predictions, limit), 1)
                 saved == current_user # NoUser /\ resume.user_id # 0
             IN /\ saved => Len(db.recommendations) + Len(recommendations) <= MaxSaved
                /\ db' = [db EXCEPT !.recommendations =
                            IF saved THEN @ \o RecommendationRows(resume, recommendations)
                            ELSE @]
                /\ Answer(call,
                     [status_code |-> 200, resume_id |-> resume_id,
                      recommendations |-> recommendations,
                      total_roles_analyzed |-> Len(ml_predictions),
                      user_profile_summary |->
                        [skills_count |-> Len(parsed_data.skills.technical),
                         experience_count |-> Len(parsed_data.experience),
                         education_count |-> Len(parsed_data.education)]])
     /\ UNCHANGED <<synonyms, reverse_map, all_skills>>
     /\ UNCHANGED scorer_vars
     /\ UNCHANGED <<files, services, normalizer_instance, instances, callers>>

(* the client has the answer to its read *)
TakeRead ==
  /\ pc.read \in {"returned", "raised"}
  /\ pc' = [pc EXCEPT !.read = "idle"]
  /\ request' = [request EXCEPT !.read = <<>>]
  /\ response' = [response EXCEPT !.read = <<>>]
  /\ UNCHANGED <<synonyms, reverse_map, all_skills>>
  /\ UNCHANGED scorer_vars
  /\ UNCHANGED api_vars

Limits == {1, 5}

InitApi ==
  /\ roles = RolesFile
  /\ parsed_resume = NoResume
  /\ predictions = <<>>
  /\ synonyms = SynonymsFile
  /\ reverse_map = BuildReverseMap(SynonymsFile, 1, <<>>)
  /\ all_skills \in Orderings(TaxonomySkills)
  /\ request = None2
  /\ response = None2
  /\ pc = Idle2
  /\ ApiIdle

NextApi ==
  \/ \E current_user \in Uploaders, file \in UploadFiles : UploadBegin(current_user, file)
  \/ UploadFinish
  \/ TakeUpload
  \/ \E current_user \in Callers, resume_id \in 1..MaxResumes :
       GetParsedResume(current_user, resume_id)
  \/ \E current_user \in Callers, resume_id \in 1..MaxResumes, limit \in Limits :
       GetRoleRecommendations(current_user, resume_id, limit)
  \/ TakeRead

SpecApi == InitApi /\ [][NextApi]_vars

-----------------------------------------------------------------------------
(* Access to stored resumes *)

(* a read has returned data *)
ReadReturned == pc.read = "returned"

(* the resume a read was about *)
ReadResume == db.resumes[request.read.resume_id]

(* C26: a resume uploaded by a registered user (user_id # 0) is given, by   *)
(* get_parsed_resume and by get_role_recommendations, only to that user;    *)
(* every other caller, a caller without a token included, is refused.       *)
C26_RegisteredResumesArePrivate ==
  (ReadReturned /\ ReadResume.user_id # 0) =>
     /\ request.read.current_user # NoUser
     /\ request.read.current_user.id = ReadResume.user_id

-----------------------------------------------------------------------------
(* Life cycle of a resume row *)

Settled == {"completed", "failed"}

(* upload_resume has returned its body *)
UploadReturned == pc.upload = "returned"

StatusOf(table, i) == table.resumes[i].processing_status

(* C30: an upload that passes the extension and size checks stores its row  *)
(* as "processing"; when the handler returns the row is "completed" (the    *)
(* text was extracted and parsed, processed_data is stored) or "failed" (a  *)
(* step raised), and the body says which; no row is "processing" unless its *)
(* handler is still running; a "completed" or "failed" row keeps its status;*)
(* and the two read handlers return data only for "completed" rows.         *)
C30_StatusLifecycle ==
  /\ [][\A i \in 1..Len(db'.resumes) :
          i > Len(db.resumes) => /\ StatusOf(db', i) = "processing"
                                 /\ pc'.upload = "processing"]_vars
  /\ [](UploadReturned =>
          LET resume == db.resumes[response.upload.resume_id]
              status == resume.processing_status
              readable == resume.file_path.readable
          IN /\ status \in Settled
             /\ response.upload.processing_status = status
             /\ status = "completed" <=> readable
             /\ status = "completed" =>
                  /\ resume.raw_text = resume.file_path.text
                  /\ resume.processed_data =
                       ParsedData(all_skills, resume.file_path.text,
                                  resume.file_path.experiences)
             /\ status = "failed" => resume.processed_data = <<>>)
  /\ [](\A i \in 1..Len(db.resumes) :
          StatusOf(db, i) \notin Settled =>
            /\ StatusOf(db, i) = "processing"
            /\ pc.upload = "processing"
            /\ i = Len(db.resumes))
  /\ [][\A i \in 1..Len(db.resumes) :
          StatusOf(db, i) \in Settled => db'.resumes[i] = db.resumes[i]]_vars
  /\ [](ReadReturned => ReadResume.processing_status = "completed")

(* an upload has returned "completed" while the worker still holds the *)
(* refusal of a read made before the row was settled                   *)
C30_Witness ==
  /\ UploadReturned
  /\ response.upload.processing_status = "completed"
  /\ pc.read = "raised"
  /\ response.read.status_code \in {202, 400}
  /\ request.read.resume_id = response.upload.resume_id

-----------------------------------------------------------------------------
(* The percentage as a function of the profile *)

(* C27: a role is given the percentage 100 only when the profile covers it: *)
(* with a final percentage of 100, no required skill is classified missing. *)
C27_FullScoreHasNoMissingSkill ==
  (Returned /\ WellFormed(roles[1])) =>
    (FracEq(predictions[1].percentage, Hundred) => predictions[1].missing = <<>>)


(* the percentage the role of the call gives to a profile *)
ScoreOf(technical) ==
  CalculateRoleScore(UserSkills([has_technical |-> TRUE, technical |-> technical]),
                     roles[1].required_skills).percentage

NamesOf(technical) == {technical[k].name : k \in 1..Len(technical)}

(* one skill object of the profile with its level raised to level *)
Raised(technical, k, level) == [technical EXCEPT ![k].proficiency_score = level]

(* the profile with a skill object of a new name after the others *)
Added(technical, name, level) ==
  Append(technical, [name |-> name, proficiency_score |-> level])

(* C28: for a fixed role, raising the level of one skill of the profile    *)
(* never lowers the final percentage, and neither does adding a new skill. *)
C28_ScoreMonotoneInProfile ==
  (Returned /\ parsed_resume.has_technical) =>
    LET technical == parsed_resume.technical
        base == predictions[1].percentage
    IN /\ \A k \in 1..Len(technical), level \in MatchProfileLevels :
            level > technical[k].proficiency_score =>
              FracLeq(base, ScoreOf(Raised(technical, k, level)))
       /\ \A name \in MatchProfileNames \ NamesOf(technical), level \in MatchProfileLevels :
            FracLeq(base, ScoreOf(Added(technical, name, level)))

-----------------------------------------------------------------------------
(* Resolution through the equivalence groups *)

(* the entries of the profile's dict in a group with the lower-cased name r *)
GroupMates(r, user_skills) ==
  {i \in 1..Len(user_skills) :
     /\ Lower(user_skills[i][1]) # Lower(r)
     /\ AreSkillsEquivalent(Lower(r), Lower(user_skills[i][1]))}

(* C29: when a role requires r, the profile holds no exact match for r, and *)
(* it holds a skill u whose lower-cased name is in one equivalence group    *)
(* with the lower-cased r, _find_skill_match resolves r to the level of     *)
(* such a u.                                                                *)
C29_GroupMembersResolve ==
  (Returned /\ Len(roles[1].required_skills) = 1) =>
    LET r == roles[1].required_skills[1].skill
        user_skills == UserSkills(parsed_resume)
        mates == GroupMates(r, user_skills)
    IN (DirectMatches(Lower(r), user_skills) = {} /\ mates # {}) =>
         \E i \in mates : Resolved(r) = <<user_skills[i][2]>>

=============================================================================
